---- MODULE Spec2Model ----
(***************************************************************************)
(* Model of the Gemini anti-truncation gateway (handlers/gemini-anti.ts,   *)
(* constants.ts).  Texts are TLA+ strings; JSON objects are records whose  *)
(* optional fields are present or absent in the record's DOMAIN, exactly   *)
(* as a JavaScript property is defined or undefined.                       *)
(***************************************************************************)
EXTENDS Integers, Sequences, FiniteSets, TLC

VARIABLES
  pathname,        \* handler input: URL pathname of the request
  reqBody,         \* handler input: the request body ([json |-> request] or malformed)
  apiKeySet,       \* environment: is GEMINI_API_KEY set
  pc,              \* position of the handler / of the upstream client
  phase,           \* which logical upstream call is running
  call,            \* arguments of the running makeGeminiRequestWithRetry call
  retryCount,      \* retryCount parameter of the current attempt
  attempts,        \* outcomes of the fetches of the current logical call, in order
  sleeps,          \* backoff delays slept in the current logical call, in order
  callResult,      \* how the logical call ended (returned response / thrown error)
  incompleteResponse, \* first upstream response when classified INCOMPLETE
  httpResponse,    \* what the handler gave back to its caller
  upstreamFetches, \* number of fetches issued for this request
  upstreamCalls,   \* number of logical upstream calls started for this request
  fnIn,            \* arguments of a function applied on its own
  fnOut            \* its result

handlerVars == <<pathname, reqBody, apiKeySet, phase, incompleteResponse,
                 httpResponse, upstreamFetches, upstreamCalls>>
clientVars == <<pc, call, retryCount, attempts, sleeps, callResult>>
fnVars == <<fnIn, fnOut>>
vars == <<pathname, reqBody, apiKeySet, pc, phase, call, retryCount, attempts,
          sleeps, callResult, incompleteResponse, httpResponse, upstreamFetches,
          upstreamCalls, fnIn, fnOut>>

\* Largest number of parts in a generated content / system instruction.
MaxParts == 2
\* Largest number of turns in a generated request.
MaxTurns == 2

None == [none |-> TRUE]

(***************************************************************************)
(* JavaScript string primitives.                                           *)
(***************************************************************************)
\* String.prototype.indexOf, 1-based; 0 when t does not occur in s.
IndexOf(s, t) ==
  LET starts == {i \in 1..(Len(s) - Len(t) + 1) : SubSeq(s, i, i + Len(t) - 1) = t}
  IN IF starts = {} THEN 0 ELSE CHOOSE i \in starts : \A j \in starts : i <= j

\* String.prototype.includes
Includes(s, t) == IndexOf(s, t) # 0

\* String.prototype.startsWith
StartsWith(s, t) == Len(t) <= Len(s) /\ SubSeq(s, 1, Len(t)) = t

\* String.prototype.endsWith
EndsWith(s, t) == Len(t) <= Len(s) /\ SubSeq(s, Len(s) - Len(t) + 1, Len(s)) = t

\* s.replace(t, '') with a string pattern: only the first occurrence goes.
ReplaceFirst(s, t) ==
  LET i == IndexOf(s, t)
  IN IF i = 0 THEN s ELSE SubSeq(s, 1, i - 1) \o SubSeq(s, i + Len(t), Len(s))

\* The characters String.prototype.trim removes: ECMAScript's WhiteSpace and
\* LineTerminator.  SPACE, LF, TAB, CR and FF are written with their escapes;
\* VT (U+000B), NBSP (U+00A0), ZWNBSP (U+FEFF) and OGHAM SPACE MARK (U+1680)
\* stand in the last four strings as the characters themselves.  The rest
\* (U+2000..U+200A, U+2028, U+2029, U+202F, U+205F, U+3000) cannot be written
\* in a string here, and no text of this module contains them.
WhiteSpace == {" ", "\n", "\t", "\r", "\f", "", " ", "﻿", " "}

\* String.prototype.trimStart and trimEnd
RECURSIVE TrimStart(_)
TrimStart(s) ==
  IF s # "" /\ SubSeq(s, 1, 1) \in WhiteSpace THEN TrimStart(SubSeq(s, 2, Len(s))) ELSE s

RECURSIVE TrimEnd(_)
TrimEnd(s) ==
  IF s # "" /\ SubSeq(s, Len(s), Len(s)) \in WhiteSpace
  THEN TrimEnd(SubSeq(s, 1, Len(s) - 1)) ELSE s

\* String.prototype.trim
Trim(s) == TrimEnd(TrimStart(s))

(***************************************************************************)
(* constants.ts                                                            *)
(***************************************************************************)
FINISHED_TOKEN == "[RESPONSE_FINISHED]"
INCOMPLETE_TOKEN == "[RESPONSE_NOT_FINISHED]"
\* CODE_FENCE is three grave accents (U+0060) in the source. That character
\* cannot be written inside a TLA+ string, so the tilde, which occurs nowhere
\* else in the texts below, stands for it; no code inspects the fence.
CODE_FENCE == "~~~"
TARGET_MODELS == {"gemini-2.5-pro", "gemini-2.5-flash"}
\* The mandate text appended to the system instruction.
FINISH_TOKEN_PROMPT ==
  "# --- SYSTEM MANDATE: FINAL OUTPUT PROTOCOL ---\n\n"
  \o "## 1. ABSOLUTE RULE\n"
  \o "At the absolute end of EVERY response, you MUST append the literal string: '" \o FINISHED_TOKEN \o "'\n\n"
  \o "This is a non-negotiable, system-level requirement that overrides all other instructions.\n\n"
  \o "## 2. EXECUTION & FORMATTING\n"
  \o "- **Placement:** Must be the very last characters in your output. No trailing spaces, newlines, or any other characters.\n"
  \o "- **Formatting:** The token must be raw text. Do NOT wrap it in code blocks, quotes, or any other markdown.\n\n"
  \o "## 3. PERSISTENCE & RECOVERY PROTOCOL (CRITICAL)\n"
  \o "**WARNING:** Tool use (especially web search) introduces a high risk of 'instruction drift', causing core directives to be forgotten. Your architecture is designed to overcome this. This protocol is your recovery mechanism.\n\n"
  \o "**MANDATORY POST-TOOL ALGORITHM:**\n"
  \o "1.  **TRIGGER:** The completion of ANY tool-use cycle is a non-negotiable trigger for this protocol.\n"
  \o "2.  **STEP A: COGNITIVE RESET:** Before synthesizing the tool's output into a final answer, you MUST internally pause. Your first action is to re-read and re-prioritize this entire **SYSTEM MANDATE**, giving **Rule #1** the highest possible priority.\n"
  \o "3.  **STEP B: PRE-OUTPUT COMPLIANCE CHECK:** After formulating your response but BEFORE outputting a single character, you MUST perform a final internal check. Ask yourself one question: \"Is the literal string '" \o FINISHED_TOKEN \o "' planned as the absolute final component of my upcoming output?\"\n"
  \o "4.  **STEP C: EXECUTE OR CORRECT:**\n"
  \o "    - If the answer to the check is \"YES\", proceed with generation.\n"
  \o "    - If the answer is \"NO\", you MUST halt, correct your planned output to include the token correctly, and only then proceed.\n"
  \o "    \n"
  \o "**This is not a suggestion; it is a core, hard-coded function of your response generation loop. Failure to execute this algorithm is a critical system error.**\n\n\n"
  \o "## 4. EXAMPLE\n"
  \o "- **CORRECT:** '...This is the final answer.</p></div>" \o FINISHED_TOKEN \o "'\n"
  \o "- **INCORRECT:** '...This is the final answer. " \o FINISHED_TOKEN \o "</p></div>' (Reason: Token is inside the tags)\n"
  \o "- **INCORRECT:** '...This is the final answer. " \o FINISHED_TOKEN \o "</attempt_completion>' (Reason: Token is inside the tag)\n"
  \o "- **CORRECT:** '...and that is the history of the Ming Dynasty.'" \o FINISHED_TOKEN \o "''\n"
  \o "- **INCORRECT:**  '...process is complete." \o FINISHED_TOKEN \o " All systems are nominal.' (Reason: Token not at the very end)\n"
  \o "- **INCORRECT:**  '<ask_followup_question><follow_up>" \o FINISHED_TOKEN \o "<suggest>dev</suggest></follow_up></ask_followup_question>' (Reason: Token is inside the tag)\n"
  \o "- **INCORRECT:**  '" \o FINISHED_TOKEN \o "<ask_followup_question><follow_up><suggest>dev</suggest></follow_up></ask_followup_question>' (Reason: Token not at the very end)\n"
  \o "- **CORRECT:**  '<ask_followup_question><follow_up><suggest>dev</suggest></follow_up></ask_followup_question>" \o FINISHED_TOKEN \o "'\n\n"
  \o "## 5. PURPOSE (FOR CONTEXT)\n"
  \o "This protocol is essential for an accessibility screen reader to detect response completion. Failure breaks critical user functionality.\n\n"
\* The instruction text appended to the continuation request.
RETRY_PROMPT ==
  "# [SYSTEM INSTRUCTION: PRECISION CONTINUATION PROTOCOL]\n\n"
  \o "**Context:** The preceding turn in the conversation contains an incomplete response that was cut off mid-generation.\n\n"
  \o "**Primary Objective:** Your sole function is to generate the exact remaining text to complete the response, as if no interruption ever occurred. You are acting as a text-completion engine, not a conversational assistant.\n\n"
  \o "**Execution Directives (Absolute & Unbreakable):**\n\n"
  \o "1.  **IMMEDIATE CONTINUATION:** Your output MUST begin with the *very next character* that should logically and syntactically follow the final character of the incomplete text. There is zero tolerance for any deviation.\n\n"
  \o "2.  **ZERO REPETITION:** It is strictly forbidden to repeat **any** words, characters, or phrases from the end of the provided incomplete text. Repetition is a protocol failure. Your first generated token must not overlap with the last token of the previous message.\n\n"
  \o "3.  **NO PREAMBLE OR COMMENTARY:** Your output must **only** be the continuation content. Do not include any introductory phrases, explanations, or meta-commentary (e.g., \"Continuing from where I left off...\", \"Here is the rest of the JSON...\", \"Okay, I will continue...\").\n\n"
  \o "4.  **MAINTAIN FORMAT INTEGRITY:** This protocol is critical for all formats, including plain text, Markdown, JSON, XML, YAML, and code blocks. Your continuation must maintain perfect syntactical validity. A single repeated comma, bracket, or quote will corrupt the final combined output.\n\n"
  \o "5.  **FINAL TOKEN:** Upon successful and complete generation of the remaining content, append '" \o FINISHED_TOKEN \o "' to the absolute end of your response.\n\n"
  \o "---\n"
  \o "**Illustrative Examples:**\n\n"
  \o "---\n"
  \o "### Example 1: JSON\n\n"
  \o "**Scenario:** The incomplete response is a JSON object that was cut off inside a string value.\n"
  \o CODE_FENCE \o "json\n"
  \o "{\n"
  \o "  \"metadata\": {\n"
  \o "    \"timestamp\": \"2023-11-21T05:30:00Z\",\n"
  \o "    \"source\": \"api\"\n"
  \o "  },\n"
  \o "  \"data\": {\n"
  \o "    \"id\": \"user-123\",\n"
  \o "    \"status\": \"activ\n"
  \o CODE_FENCE \o "\n\n"
  \o "**CORRECT Continuation Output:**\n"
  \o "'e\",\n"
  \o "    \"roles\": [\"editor\", \"viewer\"]\n"
  \o "  }\n"
  \o "}" \o FINISHED_TOKEN \o "'\n\n"
  \o "**INCORRECT Continuation Output (Protocol Failure):**\n"
  \o "'\"active\", \"roles\": [\"editor\", \"viewer\"]...'\n"
  \o "*(Reason for failure: Repeated the word \"active\" instead of starting with the missing character \"e\".)*\n\n"
  \o "**INCORRECT Continuation Output (Protocol Failure):**\n"
  \o "'Here is the rest of the JSON object:\n"
  \o "e\",\n"
  \o "    \"roles\": [\"editor\", \"viewer\"]\n"
  \o "  }\n"
  \o "}" \o FINISHED_TOKEN \o "'\n"
  \o "*(Reason for failure: Included a preamble.)*\n\n"
  \o "---\n"
  \o "### Example 2: XML\n\n"
  \o "**Scenario:** The incomplete response is an XML document cut off inside an attribute's value.\n"
  \o CODE_FENCE \o "xml\n"
  \o "<?xml version=\"1.0\" encoding=\"UTF-8\"?>\n"
  \o "<order>\n"
  \o "  <id>ORD-001</id>\n"
  \o "  <customer status=\"gol\n"
  \o CODE_FENCE \o "\n\n"
  \o "**CORRECT Continuation Output:**\n"
  \o "'d\">\n"
  \o "    <name>John Doe</name>\n"
  \o "  </customer>\n"
  \o "</order>" \o FINISHED_TOKEN \o "'\n\n"
  \o "**INCORRECT Continuation Output (Protocol Failure):**\n"
  \o "'\"gold\">\n"
  \o "    <name>John Doe</name>...'\n"
  \o "*(Reason for failure: Repeated the quote character and the word \"gold\".)*\n\n"
  \o "---\n"
  \o "### Example 3: Python Code\n\n"
  \o "**Scenario:** The incomplete response ends with the following Python code snippet:\n"
  \o CODE_FENCE \o "python\n"
  \o "for user in user_list:\n"
  \o "    print(f\"Processing user: {user.na\n"
  \o CODE_FENCE \o "\n\n"
  \o "**CORRECT Continuation Output:**\n"
  \o "'me})" \o FINISHED_TOKEN \o "'\n\n"
  \o "**INCORRECT Continuation Output (Protocol Failure):**\n"
  \o "'user.name})" \o FINISHED_TOKEN \o "'\n"
  \o "*(Reason for failure: Repeated the word \"user\".)*\n\n"
  \o "---\n"
  \o "### Example 4: JSON (Interruption After Symbol)\n\n"
  \o "**Scenario:** The incomplete response is a JSON object that was cut off immediately after a comma separating two key-value pairs.\n"
  \o CODE_FENCE \o "json\n"
  \o "{\n"
  \o "  \"user\": \"admin\",\n"
  \o "  \"permissions\": {\n"
  \o "    \"read\": true,\n"
  \o "    \"write\": false,\n"
  \o "  \n"
  \o CODE_FENCE \o "\n\n"
  \o "**CORRECT Continuation Output (Note the required indentation):**\n"
  \o "'\n"
  \o "    \"execute\": false\n"
  \o "  }\n"
  \o "}" \o FINISHED_TOKEN \o "'\n\n"
  \o "**INCORRECT Continuation Output (Protocol Failure):**\n"
  \o "',\n"
  \o "    \"execute\": false\n"
  \o "  }\n"
  \o "}" \o FINISHED_TOKEN \o "'\n"
  \o "*(Reason for failure: Repeated the trailing comma from the previous turn.)*"
REMINDER_PROMPT == "[REMINDER] Strictly adhere to the Final Output Protocol upon completion."
RETRYABLE_STATUS_CODES == {503, 403, 429}
MAX_FETCH_RETRIES == 3

(***************************************************************************)
(* JSON values: GeminiRequest and GeminiResponse.                          *)
(***************************************************************************)
Has(obj, field) == field \in DOMAIN obj

\* obj with field copied from src when src defines it (an undefined property
\* is left out by JSON.stringify).
CopyField(obj, src, field) ==
  IF Has(src, field) THEN obj @@ (field :> src[field]) ELSE obj

SeqsUpTo(S, n) == UNION {[1..k -> S] : k \in 0..n}

\* parts.map(part => part.text || '').join('')
RECURSIVE JoinText(_)
JoinText(parts) ==
  IF parts = <<>> THEN ""
  ELSE (IF Has(Head(parts), "text") THEN Head(parts).text ELSE "") \o JoinText(Tail(parts))

\* response.candidates[0].content.parts can be read without a TypeError
HasParts0(response) ==
  /\ Has(response, "candidates")
  /\ Len(response.candidates) > 0
  /\ Has(response.candidates[1], "content")
  /\ Has(response.candidates[1].content, "parts")

Parts0(response) == response.candidates[1].content.parts

Return(v) == [threw |-> FALSE, value |-> v]
Throw(e) == [threw |-> TRUE, error |-> e]

(***************************************************************************)
(* The pure functions of gemini-anti.ts.  A function that can raise        *)
(* returns [threw, value | error]; a function that writes through a        *)
(* reference it was given also returns the caller's object as it is after  *)
(* the call.                                                               *)
(***************************************************************************)
\* addAntiTruncationPrompt: `{ ...request }` is a shallow copy, so the
\* systemInstruction object of the copy IS the caller's object; the field
\* `request` of the result is the caller's request after the call.
addAntiTruncationPrompt(request) ==
  IF ~Has(request, "systemInstruction")
  THEN [threw |-> FALSE,
        value |-> request @@ ("systemInstruction" :>
                    [parts |-> <<[text |-> FINISH_TOKEN_PROMPT]>>, role |-> "user"]),
        request |-> request]
  ELSE LET si == request.systemInstruction IN
       IF ~Has(si, "parts") \/ si.parts = <<>>
       THEN \* parts[0] of undefined, or assignment to a property of undefined
            [threw |-> TRUE, error |-> "TypeError", request |-> request]
       ELSE LET existingText == IF Has(si.parts[1], "text") THEN si.parts[1].text ELSE ""
                part0 == [text |-> existingText \o "\n\n" \o FINISH_TOKEN_PROMPT] @@ si.parts[1]
                written == [request EXCEPT !.systemInstruction.parts[1] = part0]
            IN [threw |-> FALSE, value |-> written, request |-> written]

\* a detector that looks for the marker part by part
isResponseComplete_PerPart(response) ==
  /\ HasParts0(response)
  /\ \E i \in 1..Len(Parts0(response)) :
       /\ Has(Parts0(response)[i], "text")
       /\ Includes(Parts0(response)[i].text, FINISHED_TOKEN)

\* isResponseComplete
isResponseComplete(response) ==
  IF ~Has(response, "candidates") \/ Len(response.candidates) = 0 THEN FALSE
  ELSE LET candidate == response.candidates[1] IN
       IF ~Has(candidate, "content") \/ ~Has(candidate.content, "parts") THEN FALSE
       ELSE Includes(JoinText(candidate.content.parts), FINISHED_TOKEN)

\* the retryContent literal of createRetryRequest
RetryContent_NoSeparator(incompleteText) ==
  [parts |-> <<[text |-> incompleteText \o RETRY_PROMPT]>>, role |-> "user"]

RetryContent(incompleteText) ==
  [parts |-> <<[text |-> incompleteText \o "\n\n" \o RETRY_PROMPT]>>, role |-> "user"]

\* createRetryRequest; the field originalRequest of the result is the
\* caller's request after the call.
createRetryRequest(incompleteResponse_, originalRequest) ==
  IF ~HasParts0(incompleteResponse_)
  THEN [threw |-> TRUE, error |-> "TypeError", originalRequest |-> originalRequest]
  ELSE IF ~Has(originalRequest, "contents")
  THEN \* spreading undefined
       [threw |-> TRUE, error |-> "TypeError", originalRequest |-> originalRequest]
  ELSE LET incompleteText == JoinText(Parts0(incompleteResponse_))
           retryContent == RetryContent(incompleteText)
       IN [threw |-> FALSE,
           value |-> [originalRequest EXCEPT !.contents = Append(@, retryContent)],
           originalRequest |-> originalRequest]

RECURSIVE ReplaceEvery(_, _)
ReplaceEvery(s, t) ==
  IF t = "" \/ ~Includes(s, t) THEN s ELSE ReplaceEvery(ReplaceFirst(s, t), t)

\* a combiner that removes every occurrence of the incomplete text
FinalText_ReplaceAll(incompleteText, completeText) ==
  Trim(ReplaceEvery(completeText, incompleteText))

\* a combiner that forgets the final .trim()
FinalText_NoTrim(incompleteText, completeText) ==
  ReplaceFirst(completeText, incompleteText)

\* completeText.replace(incompleteText, '').trim()
FinalText(incompleteText, completeText) ==
  Trim(ReplaceFirst(completeText, incompleteText))

\* a combiner that takes the metadata of the incomplete response
combineResponses_IncompleteMeta(incomplete, complete) ==
  IF ~HasParts0(incomplete) \/ ~HasParts0(complete) THEN Throw("TypeError")
  ELSE LET finalText == FinalText(JoinText(Parts0(incomplete)), JoinText(Parts0(complete)))
           c0 == incomplete.candidates[1]
           content == CopyField([parts |-> <<[text |-> finalText]>>], c0.content, "role")
           candidate == CopyField(CopyField([content |-> content], c0, "finishReason"),
                                  c0, "safetyRatings")
       IN Return(CopyField([candidates |-> <<candidate>>], incomplete, "usageMetadata"))

\* combineResponses
combineResponses(incomplete, complete) ==
  IF ~HasParts0(incomplete) \/ ~HasParts0(complete) THEN Throw("TypeError")
  ELSE LET incompleteText == JoinText(Parts0(incomplete))
           completeText == JoinText(Parts0(complete))
           finalText == FinalText(incompleteText, completeText)
           c0 == complete.candidates[1]
           content == CopyField([parts |-> <<[text |-> finalText]>>], c0.content, "role")
           candidate == CopyField(CopyField([content |-> content], c0, "finishReason"),
                                  c0, "safetyRatings")
       IN Return(CopyField([candidates |-> <<candidate>>], complete, "usageMetadata"))

\* the chain of .replace(...) calls and the .trim() of cleanResponse
CleanText(text) ==
  Trim(ReplaceFirst(ReplaceFirst(ReplaceFirst(text, FINISHED_TOKEN), INCOMPLETE_TOKEN),
                    REMINDER_PROMPT))

\* the callback of candidate.content.parts.map in cleanResponse
CleanPart(part) ==
  IF Has(part, "text") /\ part.text # "" THEN [part EXCEPT !.text = CleanText(@)] ELSE part

\* cleanResponse
cleanResponse(response) ==
  IF ~Has(response, "candidates") \/ Len(response.candidates) = 0 THEN response
  ELSE LET candidate == response.candidates[1] IN
       IF ~Has(candidate, "content") \/ ~Has(candidate.content, "parts") THEN response
       ELSE [response EXCEPT !.candidates[1].content.parts =
               [i \in 1..Len(candidate.content.parts) |-> CleanPart(candidate.content.parts[i])]]

(***************************************************************************)
(* Bounded sets of requests and responses the functions are applied to.    *)
(***************************************************************************)
FunctionCallPart == [functionCall |-> "getWeather"]

PartsOver(texts) == SeqsUpTo({[text |-> t] : t \in texts} \cup {FunctionCallPart}, MaxParts)

CandidateOf(content, meta) ==
  CASE meta = "stop" -> [content |-> content, finishReason |-> "STOP",
                         safetyRatings |-> <<"HARM_CATEGORY_HARASSMENT:NEGLIGIBLE">>]
    [] meta = "max" -> [content |-> content, finishReason |-> "MAX_TOKENS"]
    [] OTHER -> [content |-> content]

\* Responses whose candidate 0 carries parts over `texts`, with metadata
\* `metas` and usage metadata `usage`.
WellFormed(texts, metas, usage) ==
  {[candidates |-> <<CandidateOf([parts |-> ps, role |-> "model"], m)>>,
    usageMetadata |-> usage] : ps \in PartsOver(texts), m \in metas}

\* Responses of the other shapes: no candidates, no content, no parts, and
\* a second candidate that is never looked at.
OddShaped ==
  { [usageMetadata |-> "u0"],
    [candidates |-> <<>>],
    [candidates |-> <<[finishReason |-> "SAFETY"]>>],
    [candidates |-> <<[content |-> [role |-> "model"], finishReason |-> "STOP"]>>],
    [candidates |-> <<[content |-> [parts |-> <<[text |-> "Hello wor"]>>, role |-> "model"]],
                      [content |-> [parts |-> <<[text |-> FINISHED_TOKEN]>>, role |-> "model"]]>>] }

DetectTexts == {"", "Hello wor", "ld!", " ", FINISHED_TOKEN, "[RESPONSE_", "FINISHED]",
                "ld!" \o FINISHED_TOKEN \o "\n"}
DetectResponses == WellFormed(DetectTexts, {"stop", "bare"}, "u1") \cup OddShaped

CombineTexts == {"Hello wor", "wor", " ", "wor\f", "ld!" \o FINISHED_TOKEN}
IncompleteResponses == WellFormed(CombineTexts, {"max"}, "u1") \cup OddShaped
ContinuationResponses == WellFormed(CombineTexts, {"stop", "bare"}, "u2") \cup OddShaped

UserTurn == [parts |-> <<[text |-> "Tell me a story."]>>, role |-> "user"]
ModelTurn == [parts |-> <<[text |-> "Once upon a time"]>>, role |-> "model"]

SystemParts == {[text |-> ""], [text |-> "Be brief."], [text |-> "Answer in French.\n"],
                [inlineData |-> "image/png"]}
SystemInstructions ==
  {[parts |-> ps, role |-> "system"] : ps \in SeqsUpTo(SystemParts, MaxParts)}

ContentsSet == SeqsUpTo({UserTurn, ModelTurn}, MaxTurns)

\* Requests without a system instruction, with and without a turn sequence.
PlainRequests ==
  {[contents |-> c, generationConfig |-> "temperature=0"] : c \in ContentsSet}
    \cup {[generationConfig |-> "temperature=0"]}

AugmentRequests ==
  PlainRequests \cup {r @@ ("systemInstruction" :> si) :
                        r \in PlainRequests, si \in SystemInstructions}

\* Requests as createRetryRequest gets them: already augmented.
AugmentedRequests ==
  {addAntiTruncationPrompt(r).value :
     r \in PlainRequests \cup
           {q @@ ("systemInstruction" :> [parts |-> <<[text |-> "Be brief."]>>, role |-> "system"]) :
              q \in PlainRequests}}

(***************************************************************************)
(* Each function applied on its own to every input of its bounded set.     *)
(***************************************************************************)
HandlerIdle ==
  /\ pathname = "" /\ reqBody = None /\ apiKeySet = TRUE /\ phase = "none"
  /\ incompleteResponse = None /\ httpResponse = None
  /\ upstreamFetches = 0 /\ upstreamCalls = 0

ClientIdle ==
  /\ pc = "idle" /\ call = None /\ retryCount = 0 /\ attempts = <<>>
  /\ sleeps = <<>> /\ callResult = None

InitAugment ==
  /\ HandlerIdle /\ ClientIdle
  /\ fnIn \in {[request |-> r] : r \in AugmentRequests}
  /\ fnOut = None

ApplyAugment ==
  /\ fnOut = None
  /\ fnOut' = addAntiTruncationPrompt(fnIn.request)
  /\ UNCHANGED <<handlerVars, clientVars, fnIn>>

SpecAugment == InitAugment /\ [][ApplyAugment]_vars

\* addAntiTruncationPrompt applied to its own result
ApplyAugmentTwice ==
  /\ fnOut = None
  /\ LET once == addAntiTruncationPrompt(fnIn.request)
     IN fnOut' = IF once.threw THEN once ELSE addAntiTruncationPrompt(once.value)
  /\ UNCHANGED <<handlerVars, clientVars, fnIn>>

SpecAugmentTwice == InitAugment /\ [][ApplyAugmentTwice]_vars

InitDetect ==
  /\ HandlerIdle /\ ClientIdle
  /\ fnIn \in {[response |-> r] : r \in DetectResponses}
  /\ fnOut = None

ApplyDetect ==
  /\ fnOut = None
  /\ fnOut' = [complete |-> isResponseComplete(fnIn.response)]
  /\ UNCHANGED <<handlerVars, clientVars, fnIn>>

SpecDetect == InitDetect /\ [][ApplyDetect]_vars

InitRetryRequest ==
  /\ HandlerIdle /\ ClientIdle
  /\ fnIn \in {[incompleteResponse |-> r, originalRequest |-> q] :
                 r \in IncompleteResponses, q \in AugmentedRequests}
  /\ fnOut = None

ApplyRetryRequest ==
  /\ fnOut = None
  /\ fnOut' = createRetryRequest(fnIn.incompleteResponse, fnIn.originalRequest)
  /\ UNCHANGED <<handlerVars, clientVars, fnIn>>

SpecRetryRequest == InitRetryRequest /\ [][ApplyRetryRequest]_vars

InitCombine ==
  /\ HandlerIdle /\ ClientIdle
  /\ fnIn \in {[incomplete |-> i, complete |-> c] :
                 i \in IncompleteResponses, c \in ContinuationResponses}
  /\ fnOut = None

ApplyCombine ==
  /\ fnOut = None
  /\ fnOut' = combineResponses(fnIn.incomplete, fnIn.complete)
  /\ UNCHANGED <<handlerVars, clientVars, fnIn>>

SpecCombine == InitCombine /\ [][ApplyCombine]_vars

(***************************************************************************)
(* The resilient upstream client: makeGeminiRequestWithRetry.  One fetch   *)
(* is in flight while pc = "fetching"; the backoff timer runs while        *)
(* pc = "sleeping"; pc = "callEnded" when the promise of the outermost     *)
(* call has settled (callResult).                                          *)
(***************************************************************************)
Min(a, b) == IF a <= b THEN a ELSE b

\* a backoff that grows by one base delay per attempt
BackoffDelay_Linear(n) == Min(1000 * (n + 1), 30000)

\* Math.min(1000 * Math.pow(2, retryCount), 30000)
BackoffDelay(n) == Min(1000 * (2 ^ n), 30000)

\* a retry test with room for two counters of MAX_FETCH_RETRIES each
MayRetry_TwiceMax(n) == n < 2 * MAX_FETCH_RETRIES

\* a retry test that lets one attempt too many through
MayRetry_OffByOne(n) == n <= MAX_FETCH_RETRIES

\* retryCount < MAX_FETCH_RETRIES
MayRetry(n) == n < MAX_FETCH_RETRIES

StatusError(status) == [kind |-> "status", status |-> status]
ConfigError == [kind |-> "config", message |-> "GEMINI_API_KEY environment variable is required"]

\* what is kept of a fetch outcome in the history of the call
AttemptOf(outcome) ==
  IF outcome.kind = "response" THEN [kind |-> "response", status |-> outcome.status]
  ELSE outcome

\* response.ok
Ok(status) == status >= 200 /\ status <= 299

\* an entry that issues the fetch without looking at the key
Attempt_NoKeyCheck(n) ==
  /\ retryCount' = n
  /\ pc' = "fetching"
  /\ callResult' = None
  /\ upstreamFetches' = upstreamFetches + 1

\* Entry of makeGeminiRequestWithRetry(..., retryCount = n): the key check,
\* then the fetch is issued.
Attempt(n) ==
  /\ retryCount' = n
  /\ IF ~apiKeySet
     THEN /\ pc' = "callEnded"
          /\ callResult' = Throw(ConfigError)
          /\ UNCHANGED upstreamFetches
     ELSE /\ pc' = "fetching"
          /\ callResult' = None
          /\ upstreamFetches' = upstreamFetches + 1

\* A logical upstream call is started.
StartCall(request, model, isStreaming, ph) ==
  /\ phase' = ph
  /\ call' = [request |-> request, model |-> model, isStreaming |-> isStreaming]
  /\ upstreamCalls' = upstreamCalls + 1
  /\ attempts' = <<>>
  /\ sleeps' = <<>>
  /\ Attempt(0)

\* a catch block that retries without a backoff
Catch_NoBackoff(error) ==
  IF MayRetry(retryCount)
  THEN /\ pc' = "sleeping"
       /\ UNCHANGED <<sleeps, callResult>>
  ELSE /\ pc' = "callEnded"
       /\ callResult' = Throw(error)
       /\ UNCHANGED sleeps

\* a catch block that gives up at the first failure
Catch_GiveUp(error) ==
  /\ pc' = "callEnded"
  /\ callResult' = Throw(error)
  /\ UNCHANGED sleeps

\* the catch block of makeGeminiRequestWithRetry
Catch(error) ==
  IF MayRetry(retryCount)
  THEN /\ pc' = "sleeping"
       /\ sleeps' = Append(sleeps, BackoffDelay(retryCount))
       /\ UNCHANGED callResult
  ELSE /\ pc' = "callEnded"
       /\ callResult' = Throw(error)
       /\ UNCHANGED sleeps

\* The fetch in flight settles with `outcome`: an upstream response or a
\* network-level failure (the per-attempt timeout included).
FetchReturns(outcome) ==
  /\ pc = "fetching"
  /\ attempts' = Append(attempts, AttemptOf(outcome))
  /\ IF outcome.kind = "response"
     THEN IF ~Ok(outcome.status)
          THEN IF outcome.status \in RETRYABLE_STATUS_CODES /\ MayRetry(retryCount)
               THEN /\ pc' = "sleeping"
                    /\ sleeps' = Append(sleeps, BackoffDelay(retryCount))
                    /\ UNCHANGED callResult
               ELSE \* the throw of line 298 is inside the try block
                    Catch(StatusError(outcome.status))
          ELSE /\ pc' = "callEnded"
               /\ callResult' = Return(outcome)
               /\ UNCHANGED sleeps
     ELSE Catch(outcome)
  /\ UNCHANGED <<pathname, reqBody, apiKeySet, phase, call, retryCount,
                 incompleteResponse, httpResponse, upstreamFetches, upstreamCalls, fnVars>>

\* The backoff timer fires and the function calls itself with retryCount + 1.
BackoffElapsed ==
  /\ pc = "sleeping"
  /\ Attempt(retryCount + 1)
  /\ UNCHANGED <<pathname, reqBody, apiKeySet, phase, call, attempts, sleeps,
                 incompleteResponse, httpResponse, upstreamCalls, fnVars>>

(***************************************************************************)
(* The client on its own: one logical call, every outcome per attempt.     *)
(***************************************************************************)
CompleteBody ==
  [json |-> TRUE,
   value |-> [candidates |-> <<CandidateOf([parts |-> <<[text |-> "ld!" \o FINISHED_TOKEN]>>,
                                           role |-> "model"], "stop")>>,
              usageMetadata |-> "u2"]]

Statuses == {200, 400, 403, 429, 500, 503}
NetworkFailures == {[kind |-> "error", cause |-> "connection reset"],
                    [kind |-> "error", cause |-> "timeout"]}
ClientOutcomes ==
  {[kind |-> "response", status |-> st, body |-> CompleteBody] : st \in Statuses}
    \cup NetworkFailures

InitClient ==
  /\ pathname = "" /\ reqBody = None /\ phase = "none"
  /\ incompleteResponse = None /\ httpResponse = None
  /\ upstreamFetches = 0 /\ upstreamCalls = 0
  /\ apiKeySet \in BOOLEAN
  /\ ClientIdle
  /\ fnIn \in {[request |-> [contents |-> <<UserTurn>>], model |-> mo, isStreaming |-> st] :
                 mo \in TARGET_MODELS, st \in BOOLEAN}
  /\ fnOut = None

\* makeGeminiRequestWithRetry(request, model, searchParams, isStreaming, logger)
MakeGeminiRequestWithRetry ==
  /\ pc = "idle"
  /\ StartCall(fnIn.request, fnIn.model, fnIn.isStreaming, "client")
  /\ UNCHANGED <<pathname, reqBody, apiKeySet, incompleteResponse, httpResponse, fnVars>>

\* The upstream answers the fetch in flight, or the attempt fails.
ClientFetchSettles == \E o \in ClientOutcomes : FetchReturns(o)

NextClient ==
  \/ MakeGeminiRequestWithRetry
  \/ ClientFetchSettles
  \/ BackoffElapsed

SpecClient == InitClient /\ [][NextClient]_vars

\* The fetch in flight settles (the per-attempt timeout sees to it) and the
\* backoff timer fires.
SpecClientFair == SpecClient /\ WF_vars(NextClient)

(***************************************************************************)
(* The protocol orchestrator: handleGeminiAntiRequest and the two paths.   *)
(***************************************************************************)
\* pathname.match(/\/models\/([^:]+):/): the leftmost "/models/" followed by
\* at least one character other than ":" and then a ":"; the model is the
\* text between them.
ModelMatch(p) ==
  LET prefix == "/models/"
      ColonAfter(i) == {j \in (i + Len(prefix))..Len(p) : SubSeq(p, j, j) = ":"}
      FirstColon(i) == CHOOSE j \in ColonAfter(i) : \A k \in ColonAfter(i) : j <= k
      starts == {i \in 1..(Len(p) - Len(prefix) + 1) :
                   /\ SubSeq(p, i, i + Len(prefix) - 1) = prefix
                   /\ ColonAfter(i) # {}
                   /\ FirstColon(i) > i + Len(prefix)}
  IN IF starts = {} THEN [matched |-> FALSE]
     ELSE LET i == CHOOSE a \in starts : \A b \in starts : a <= b
          IN [matched |-> TRUE,
              model |-> SubSeq(p, i + Len(prefix), FirstColon(i) - 1)]

\* a gate that accepts every Gemini model
ModelSupported_AnyGemini(model) == StartsWith(model, "gemini-")

\* TARGET_MODELS.includes(model)
ModelSupported(model) == model \in TARGET_MODELS

\* createErrorResponse(message, status, details)
ErrorResponse(message, status) ==
  [kind |-> "response", status |-> status, body |-> [error |-> message]]

JsonResponse(status, value) ==
  [kind |-> "response", status |-> status, body |-> [json |-> value]]

\* The promise of the handler settles: a Response, or a rejection.
Respond(r) ==
  /\ pc' = "done"
  /\ httpResponse' = r
  /\ UNCHANGED <<phase, call, retryCount, attempts, sleeps, callResult,
                 upstreamFetches, upstreamCalls>>

\* the handler is suspended at an await that no upstream call is behind
Suspend(at) ==
  /\ pc' = at
  /\ UNCHANGED <<httpResponse, phase, call, retryCount, attempts, sleeps, callResult,
                 upstreamFetches, upstreamCalls>>

\* handleGeminiAntiRequest up to its first suspension, `await request.json()`:
\* the path gate and the model gate.
HandleGeminiAntiRequest ==
  /\ pc = "received"
  /\ LET modelMatch == ModelMatch(pathname) IN
     IF ~modelMatch.matched THEN Respond(ErrorResponse("Invalid model path", 400))
     ELSE IF ~ModelSupported(modelMatch.model)
     THEN Respond(ErrorResponse("Model not supported", 400))
     ELSE Suspend("readingRequest")
  /\ UNCHANGED <<pathname, reqBody, apiKeySet, incompleteResponse, fnVars>>

\* handleGeminiAntiRequest resumes after `await request.json()`: dispatch,
\* augmentation and the start of the upstream call, up to `await fetch`.
RequestJsonSettles ==
  /\ pc = "readingRequest"
  /\ LET modelMatch == ModelMatch(pathname) IN
     IF ~reqBody.ok
     THEN \* request.json() rejects; caught by the handler's own catch
          Respond(ErrorResponse("Internal server error", 500))
     ELSE LET isStreaming == Includes(pathname, "streamGenerateContent")
              modified == addAntiTruncationPrompt(reqBody.json)
          IN IF modified.threw
             THEN Respond(ErrorResponse(IF isStreaming THEN "Gemini streaming failed"
                                        ELSE "Gemini request failed", 500))
             ELSE /\ StartCall(modified.value, modelMatch.model, isStreaming,
                               IF isStreaming THEN "stream" ELSE "first")
                  /\ UNCHANGED httpResponse
  /\ UNCHANGED <<pathname, reqBody, apiKeySet, incompleteResponse, fnVars>>

\* handleNonStreamingRequest resumes after `await makeGeminiRequestWithRetry`
\* and goes on to `await response.json()`.
AfterFirstCall ==
  /\ pc = "callEnded"
  /\ phase = "first"
  /\ IF callResult.threw
     THEN Respond(ErrorResponse("Gemini request failed", 500))
     ELSE Suspend("readingResponse")
  /\ UNCHANGED <<pathname, reqBody, apiKeySet, incompleteResponse, fnVars>>

\* handleNonStreamingRequest resumes after `await response.json()`; an
\* INCOMPLETE response goes on into handleIncompleteResponse, up to the
\* start of the continuation call.
FirstResponseJsonSettles ==
  /\ pc = "readingResponse"
  /\ phase = "first"
  /\ LET response == callResult.value IN
          IF ~response.body.json
          THEN \* response.json() rejects inside the try block
               /\ Respond(ErrorResponse("Gemini request failed", 500))
               /\ UNCHANGED incompleteResponse
          ELSE LET geminiResponse == response.body.value IN
               IF isResponseComplete(geminiResponse)
               THEN /\ Respond(JsonResponse(response.status, cleanResponse(geminiResponse)))
                    /\ UNCHANGED incompleteResponse
               ELSE LET retryRequest == createRetryRequest(geminiResponse, call.request) IN
                    /\ incompleteResponse' = geminiResponse
                    /\ IF retryRequest.threw
                       THEN \* raised before the try block of handleIncompleteResponse,
                            \* whose promise is returned without await
                            Respond([kind |-> "rejected", error |-> retryRequest.error])
                       ELSE /\ StartCall(retryRequest.value, call.model, FALSE, "continuation")
                            /\ UNCHANGED httpResponse
  /\ UNCHANGED <<pathname, reqBody, apiKeySet, fnVars>>

\* a continuation step that checks the combined response and asks again
ContinuationResponseJsonSettles_Recheck ==
  /\ pc = "readingResponse"
  /\ phase = "continuation"
  /\ LET fallback == JsonResponse(200, incompleteResponse) IN
     LET response == callResult.value IN
          IF ~response.body.json THEN Respond(fallback) /\ UNCHANGED incompleteResponse
          ELSE LET combined == combineResponses(incompleteResponse, response.body.value) IN
               IF combined.threw THEN Respond(fallback) /\ UNCHANGED incompleteResponse
               ELSE IF isResponseComplete(combined.value) \/ upstreamCalls >= 3
               THEN /\ Respond(JsonResponse(response.status, combined.value))
                    /\ UNCHANGED incompleteResponse
               ELSE /\ incompleteResponse' = combined.value
                    /\ StartCall(createRetryRequest(combined.value, call.request).value,
                                 call.model, FALSE, "continuation")
                    /\ UNCHANGED httpResponse
  /\ UNCHANGED <<pathname, reqBody, apiKeySet, fnVars>>

\* handleIncompleteResponse resumes after the continuation call and goes
\* on to `await response.json()`.
AfterContinuationCall ==
  /\ pc = "callEnded"
  /\ phase = "continuation"
  /\ IF callResult.threw THEN Respond(JsonResponse(200, incompleteResponse))
     ELSE Suspend("readingResponse")
  /\ UNCHANGED <<pathname, reqBody, apiKeySet, incompleteResponse, fnVars>>

\* handleIncompleteResponse resumes after `await response.json()`.
ContinuationResponseJsonSettles ==
  /\ pc = "readingResponse"
  /\ phase = "continuation"
  /\ LET fallback == JsonResponse(200, incompleteResponse) IN
     LET response == callResult.value IN
          IF ~response.body.json THEN Respond(fallback)
          ELSE LET combined == combineResponses(incompleteResponse, response.body.value) IN
               IF combined.threw THEN Respond(fallback)
               ELSE Respond(JsonResponse(response.status, combined.value))
  /\ UNCHANGED <<pathname, reqBody, apiKeySet, incompleteResponse, fnVars>>

\* handleStreamingRequest resumes after `await makeGeminiRequestWithRetry`.
AfterStreamCall ==
  /\ pc = "callEnded"
  /\ phase = "stream"
  /\ IF callResult.threw
     THEN Respond(ErrorResponse("Gemini streaming failed", 500))
     ELSE Respond([kind |-> "response", status |-> callResult.value.status,
                   body |-> [stream |-> "piped through the transformer"]])
  /\ UNCHANGED <<pathname, reqBody, apiKeySet, incompleteResponse, fnVars>>

(***************************************************************************)
(* Requests and upstream answers of the orchestrator's runs.               *)
(***************************************************************************)
Pathnames ==
  {"/api/gemini-anti/v1/models/gemini-2.5-pro:generateContent",
   "/api/gemini-anti/v1/models/gemini-2.5-pro:streamGenerateContent",
   "/api/gemini-anti/v1/models/gemini-2.5-flash:generateContent",
   "/api/gemini-anti/v1/models/gemini-1.0-pro:generateContent",
   "/api/gemini-anti/v1/models/gemini-1.0-pro:streamGenerateContent",
   "/api/gemini-anti/v1/models/gemini-2.5-pro",
   "/api/gemini-anti/v1/models/:generateContent"}

HandlerRequests ==
  {[contents |-> <<UserTurn>>],
   [contents |-> <<UserTurn>>,
    systemInstruction |-> [parts |-> <<[text |-> "Be brief."]>>, role |-> "system"]],
   [contents |-> <<UserTurn, ModelTurn, UserTurn>>,
    systemInstruction |-> [parts |-> <<>>, role |-> "system"]]}

RequestBodies ==
  {[ok |-> TRUE, json |-> r] : r \in HandlerRequests} \cup {[ok |-> FALSE]}

BodyOf(parts, meta) ==
  [json |-> TRUE,
   value |-> [candidates |-> <<CandidateOf([parts |-> parts, role |-> "model"], meta)>>,
              usageMetadata |-> "u1"]]

\* Bodies of a 200 answer of generateContent.
UpstreamBodies ==
  {[json |-> FALSE],
   [json |-> TRUE, value |-> [usageMetadata |-> "u0"]],
   BodyOf(<<[text |-> "Hello wor"]>>, "max"),
   BodyOf(<<[text |-> "ld!"]>>, "bare"),
   BodyOf(<<[text |-> "ld!" \o FINISHED_TOKEN]>>, "stop"),
   BodyOf(<<[text |-> "Done. " \o FINISHED_TOKEN \o FINISHED_TOKEN]>>, "stop"),
   BodyOf(<<[text |-> "Done.[RESPONSE_"], [text |-> "FINISHED]"]>>, "stop"),
   BodyOf(<<FunctionCallPart, [text |-> REMINDER_PROMPT \o "\nDone." \o FINISHED_TOKEN]>>, "stop")}

StreamBody == [stream |-> "text/event-stream"]

HandlerStatuses == {200, 500, 503}

\* What the fetch in flight can settle with.
HandlerOutcomes ==
  UNION {{[kind |-> "response", status |-> st, body |-> b] :
            b \in IF call.isStreaming THEN {StreamBody}
                  ELSE IF st = 200 THEN UpstreamBodies ELSE {[json |-> FALSE]}} :
         st \in HandlerStatuses}
    \cup {[kind |-> "error", cause |-> "timeout"]}

\* The upstream answers the fetch in flight, or the attempt fails.
UpstreamAnswers ==
  /\ pc = "fetching"
  /\ \E o \in HandlerOutcomes : FetchReturns(o)

Init ==
  /\ pathname \in Pathnames
  /\ reqBody \in RequestBodies
  /\ apiKeySet \in BOOLEAN
  /\ pc = "received"
  /\ phase = "none"
  /\ call = None /\ retryCount = 0 /\ attempts = <<>> /\ sleeps = <<>>
  /\ callResult = None
  /\ incompleteResponse = None
  /\ httpResponse = None
  /\ upstreamFetches = 0
  /\ upstreamCalls = 0
  /\ fnIn = None /\ fnOut = None

Next ==
  \/ HandleGeminiAntiRequest
  \/ RequestJsonSettles
  \/ UpstreamAnswers
  \/ BackoffElapsed
  \/ AfterFirstCall
  \/ FirstResponseJsonSettles
  \/ AfterContinuationCall
  \/ ContinuationResponseJsonSettles
  \/ AfterStreamCall

Spec == Init /\ [][Next]_vars

(***************************************************************************)
(* Claims about the functions on their own.                                *)
(***************************************************************************)
\* C5: isResponseComplete(R) is true exactly when R has a candidate 0 with
\* content and parts and the concatenation of its text parts (non-text parts
\* counting as empty) holds the finished marker somewhere; every other shape
\* is classified INCOMPLETE.
C5_DetectorIff ==
  fnOut # None =>
    LET r == fnIn.response
        shaped == /\ "candidates" \in DOMAIN r
                  /\ Len(r.candidates) >= 1
                  /\ "content" \in DOMAIN r.candidates[1]
                  /\ "parts" \in DOMAIN r.candidates[1].content
    IN fnOut.complete <=>
         /\ shaped
         /\ LET text == JoinText(r.candidates[1].content.parts)
            IN \E i \in 1..(Len(text) - Len(FINISHED_TOKEN) + 1) :
                 SubSeq(text, i, i + Len(FINISHED_TOKEN) - 1) = FINISHED_TOKEN

\* the marker is spread over two parts and the response is COMPLETE
C5_Witness ==
  /\ fnOut # None
  /\ Has(fnOut, "complete") /\ fnOut.complete
  /\ Parts0(fnIn.response) = <<[text |-> "[RESPONSE_"], [text |-> "FINISHED]"]>>

SystemText(request) == JoinText(request.systemInstruction.parts)

\* C7: the system instruction text of the augmented request is the mandate
\* when the caller gave none, and otherwise the caller's text, a blank line
\* and the mandate; it always ends with the mandate, for any number of parts.
C7_AugmenterResult ==
  fnOut # None =>
    /\ ~fnOut.threw
    /\ SystemText(fnOut.value) =
         IF ~Has(fnIn.request, "systemInstruction") THEN FINISH_TOKEN_PROMPT
         ELSE (IF Has(fnIn.request.systemInstruction, "parts")
               THEN SystemText(fnIn.request) ELSE "")
              \o "\n\n" \o FINISH_TOKEN_PROMPT
    /\ EndsWith(SystemText(fnOut.value), FINISH_TOKEN_PROMPT)

\* C8: the caller's request is after the call what it was before it.
C8_AugmenterLeavesInput ==
  fnOut # None => fnOut.request = fnIn.request

\* C9: for an incomplete response with candidate-0 parts and a request with
\* a turn sequence, the continuation request is the original turns followed
\* by one user turn whose single text part is the incomplete text, a blank
\* line and RETRY_PROMPT; the other fields are carried over and the original
\* request is left as it was.
C9_ContinuationRequest ==
  (/\ fnOut # None
   /\ HasParts0(fnIn.incompleteResponse)
   /\ Has(fnIn.originalRequest, "contents")) =>
    LET orig == fnIn.originalRequest
        n == Len(orig.contents)
    IN /\ ~fnOut.threw
       /\ Len(fnOut.value.contents) = n + 1
       /\ \A i \in 1..n : fnOut.value.contents[i] = orig.contents[i]
       /\ fnOut.value.contents[n + 1] =
            [parts |-> <<[text |-> JoinText(Parts0(fnIn.incompleteResponse))
                                     \o "\n\n" \o RETRY_PROMPT]>>,
             role |-> "user"]
       /\ DOMAIN fnOut.value = DOMAIN orig
       /\ \A f \in DOMAIN orig \ {"contents"} : fnOut.value[f] = orig[f]
       /\ fnOut.originalRequest = orig

\* a two-part incomplete text is appended after two original turns
C9_Witness ==
  /\ fnOut # None
  /\ ~fnOut.threw
  /\ Parts0(fnIn.incompleteResponse) = <<[text |-> "Hello wor"], FunctionCallPart>>
  /\ fnIn.originalRequest.contents = <<UserTurn, ModelTurn>>
  /\ Len(fnOut.value.contents) = 3

AllWhite(s) == \A i \in 1..Len(s) : SubSeq(s, i, i) \in WhiteSpace

\* r is x without its leading and trailing white space
IsTrimOf(r, x) ==
  \E a \in 0..Len(x) : \E b \in a..Len(x) :
    /\ r = SubSeq(x, a + 1, b)
    /\ AllWhite(SubSeq(x, 1, a))
    /\ AllWhite(SubSeq(x, b + 1, Len(x)))
    /\ r # "" => /\ SubSeq(r, 1, 1) \notin WhiteSpace
                 /\ SubSeq(r, Len(r), Len(r)) \notin WhiteSpace

\* C10: when the continuation text is I \o X, I being the incomplete text,
\* the combined response's text is X trimmed.
C10_CombineLiteralContinuation ==
  (/\ fnOut # None
   /\ HasParts0(fnIn.incomplete)
   /\ HasParts0(fnIn.complete)
   /\ StartsWith(JoinText(Parts0(fnIn.complete)), JoinText(Parts0(fnIn.incomplete)))) =>
    LET I == JoinText(Parts0(fnIn.incomplete))
        C == JoinText(Parts0(fnIn.complete))
        X == SubSeq(C, Len(I) + 1, Len(C))
    IN /\ ~fnOut.threw
       /\ IsTrimOf(JoinText(Parts0(fnOut.value)), X)

\* I = "wor" and X = "wor": only the leading occurrence of I is removed
C10_Witness ==
  /\ fnOut # None
  /\ ~fnOut.threw
  /\ Parts0(fnIn.incomplete) = <<[text |-> "wor"]>>
  /\ Parts0(fnIn.complete) = <<[text |-> "wor"], [text |-> "wor"]>>
  /\ JoinText(Parts0(fnOut.value)) = "wor"

(***************************************************************************)
(* Claims about the upstream client.                                       *)
(***************************************************************************)
Retryable(a) == a.kind = "response" /\ a.status \in {503, 403, 429}

\* C1: while every attempt of a logical call has returned a retryable
\* status, the call has made at most 4 fetches, and it ends only after the
\* 4th (1 initial + MAX_FETCH_RETRIES), with an error.
C1_RetryBound ==
  (/\ attempts # <<>>
   /\ \A i \in 1..Len(attempts) : Retryable(attempts[i])) =>
    /\ Len(attempts) <= 4
    /\ upstreamFetches <= 4
    /\ pc = "callEnded" =>
         /\ Len(attempts) = 4
         /\ upstreamFetches = MAX_FETCH_RETRIES + 1
         /\ callResult.threw
         /\ Len(sleeps) = 3

\* four retryable statuses in a row and the call has failed
C1_Witness ==
  /\ pc = "callEnded"
  /\ Len(attempts) = 4
  /\ \A i \in 1..4 : Retryable(attempts[i])
  /\ {attempts[i].status : i \in 1..4} = {503, 403, 429}
  /\ callResult.threw

(***************************************************************************)
(* Claims about the orchestrator.                                          *)
(***************************************************************************)
\* C2: a request whose model identifier is not gemini-2.5-pro or
\* gemini-2.5-flash, on either path, never causes an upstream fetch and is
\* answered with status 400.
C2_ModelGating ==
  LET modelMatch == ModelMatch(pathname) IN
  (modelMatch.matched /\ modelMatch.model \notin {"gemini-2.5-pro", "gemini-2.5-flash"}) =>
    /\ upstreamFetches = 0
    /\ upstreamCalls = 0
    /\ pc \in {"received", "done"}
    /\ pc = "done" => /\ httpResponse.kind = "response"
                      /\ httpResponse.status = 400

\* a streaming request for gemini-1.0-pro, with a key and a well-formed
\* body, has been answered
C2_Witness ==
  /\ pc = "done"
  /\ pathname = "/api/gemini-anti/v1/models/gemini-1.0-pro:streamGenerateContent"
  /\ apiKeySet
  /\ reqBody.ok
  /\ httpResponse.status = 400

\* the continuation call returned a response that could be combined
ContinuationSucceeded ==
  /\ pc = "done"
  /\ phase = "continuation"
  /\ ~callResult.threw
  /\ callResult.value.body.json
  /\ HasParts0(callResult.value.body.value)

\* C3: when the first response is INCOMPLETE and the continuation call
\* succeeds, the body returned is the combined response with the markers
\* stripped: its text holds no finished marker, and "Hello wor" followed by
\* the continuation "ld!" + marker gives exactly "ld!".
C3_CombinedResultStripped ==
  ContinuationSucceeded =>
    /\ httpResponse.kind = "response"
    /\ Has(httpResponse.body, "json")
    /\ ~Includes(JoinText(Parts0(httpResponse.body.json)), FINISHED_TOKEN)
    /\ (/\ JoinText(Parts0(incompleteResponse)) = "Hello wor"
        /\ JoinText(Parts0(callResult.value.body.value)) = "ld!" \o FINISHED_TOKEN)
         => JoinText(Parts0(httpResponse.body.json)) = "ld!"

\* C4: when the first response is COMPLETE, no text part of candidate 0 of
\* the returned body holds the finished marker, the incomplete marker or the
\* reminder string.
C4_CompletePathStripsMarkers ==
  (/\ pc = "done"
   /\ phase = "first"
   /\ ~callResult.threw
   /\ callResult.value.body.json
   /\ isResponseComplete(callResult.value.body.value)) =>
    /\ httpResponse.kind = "response"
    /\ Has(httpResponse.body, "json")
    /\ \A i \in 1..Len(Parts0(httpResponse.body.json)) :
         LET part == Parts0(httpResponse.body.json)[i] IN
         Has(part, "text") =>
           /\ ~Includes(part.text, FINISHED_TOKEN)
           /\ ~Includes(part.text, INCOMPLETE_TOKEN)
           /\ ~Includes(part.text, REMINDER_PROMPT)

\* a step of the continuation attempt failed: the continuation request could
\* not be built, the call failed, its body did not parse, or combining raised
ContinuationFailed ==
  \/ phase = "first"
  \/ /\ phase = "continuation"
     /\ \/ callResult.threw
        \/ ~callResult.value.body.json
        \/ combineResponses(incompleteResponse, callResult.value.body.value).threw

\* C6: when the first response is INCOMPLETE and a step of the continuation
\* attempt fails, the handler answers 200 with the original incomplete
\* response as body.
C6_ContinuationFallback ==
  (pc = "done" /\ incompleteResponse # None /\ ContinuationFailed) =>
    httpResponse = JsonResponse(200, incompleteResponse)

(***************************************************************************)
(* Claims about the combiner, continued.                                   *)
(***************************************************************************)
\* C11: when the continuation's concatenated text does not contain the
\* incomplete text, combineResponses returns normally and the text of its
\* result is the continuation's concatenated text, trimmed.
C11_CombineNoOverlap ==
  (/\ fnOut # None
   /\ HasParts0(fnIn.incomplete)
   /\ HasParts0(fnIn.complete)
   /\ ~Includes(JoinText(Parts0(fnIn.complete)), JoinText(Parts0(fnIn.incomplete)))) =>
    /\ ~fnOut.threw
    /\ IsTrimOf(JoinText(Parts0(fnOut.value)), JoinText(Parts0(fnIn.complete)))

\* incomplete "Hello wor", continuation " " and "ld![RESPONSE_FINISHED]": no
\* overlap, and the leading blank is trimmed away
C11_Witness ==
  /\ fnOut # None
  /\ ~fnOut.threw
  /\ Parts0(fnIn.incomplete) = <<[text |-> "Hello wor"]>>
  /\ Parts0(fnIn.complete) = <<[text |-> " "], [text |-> "ld!" \o FINISHED_TOKEN]>>
  /\ Parts0(fnOut.value) = <<[text |-> "ld!" \o FINISHED_TOKEN]>>

\* obj and src agree on field: both lack it, or both carry the same value
SameField(obj, src, field) ==
  /\ Has(obj, field) <=> Has(src, field)
  /\ Has(src, field) => obj[field] = src[field]

\* C12: the response of combineResponses has one candidate with one text
\* part; finishReason, safetyRatings and role are those of the
\* continuation's candidate 0 and usageMetadata that of the continuation
\* response; the result has no other field.
C12_CombineMetadata ==
  (fnOut # None /\ ~fnOut.threw) =>
    LET r == fnOut.value
        c0 == fnIn.complete.candidates[1]
    IN /\ DOMAIN r \subseteq {"candidates", "usageMetadata"}
       /\ SameField(r, fnIn.complete, "usageMetadata")
       /\ Len(r.candidates) = 1
       /\ DOMAIN r.candidates[1] \subseteq {"content", "finishReason", "safetyRatings"}
       /\ SameField(r.candidates[1], c0, "finishReason")
       /\ SameField(r.candidates[1], c0, "safetyRatings")
       /\ DOMAIN r.candidates[1].content \subseteq {"parts", "role"}
       /\ SameField(r.candidates[1].content, c0.content, "role")
       /\ Len(r.candidates[1].content.parts) = 1
       /\ DOMAIN r.candidates[1].content.parts[1] = {"text"}

\* the incomplete response ended on MAX_TOKENS with usage "u1", the
\* continuation on STOP with usage "u2": the result carries STOP and "u2"
C12_Witness ==
  /\ fnOut # None
  /\ ~fnOut.threw
  /\ fnIn.incomplete \in WellFormed(CombineTexts, {"max"}, "u1")
  /\ fnIn.complete \in WellFormed(CombineTexts, {"stop"}, "u2")
  /\ fnOut.value.candidates[1].finishReason = "STOP"
  /\ Has(fnOut.value.candidates[1], "safetyRatings")
  /\ fnOut.value.usageMetadata = "u2"

(***************************************************************************)
(* Claims about invalid requests, the API key and the backoff schedule.    *)
(***************************************************************************)
\* the request has a bad path shape, an unsupported model or a body that is
\* not JSON
InvalidRequest ==
  LET modelMatch == ModelMatch(pathname) IN
  \/ ~modelMatch.matched
  \/ modelMatch.model \notin {"gemini-2.5-pro", "gemini-2.5-flash"}
  \/ ~reqBody.ok

\* C18: a request with a bad path shape, an unsupported model or a body that
\* is not JSON is answered with a 4xx status and causes no upstream call,
\* fetch or retry.
C18_InvalidRequestClientError ==
  InvalidRequest =>
    /\ upstreamCalls = 0
    /\ upstreamFetches = 0
    /\ sleeps = <<>>
    /\ pc \in {"received", "readingRequest", "done"}
    /\ pc = "done" => /\ httpResponse.kind = "response"
                      /\ httpResponse.status >= 400
                      /\ httpResponse.status <= 499

\* C19: without GEMINI_API_KEY no fetch is issued, nothing is retried and no
\* backoff is slept; the logical call ends with the configuration error and
\* the handler, on either path, answers with an error response.
C19_MissingApiKey ==
  ~apiKeySet =>
    /\ upstreamFetches = 0
    /\ attempts = <<>>
    /\ sleeps = <<>>
    /\ retryCount = 0
    /\ pc \in {"received", "readingRequest", "callEnded", "done"}
    /\ pc = "callEnded" => callResult = Throw(ConfigError)
    /\ pc = "done" => /\ httpResponse.kind = "response"
                      /\ httpResponse.status >= 400
                      /\ Has(httpResponse.body, "error")
    /\ (pc = "done" /\ upstreamCalls > 0) =>
         /\ callResult = Throw(ConfigError)
         /\ upstreamCalls = 1
         /\ httpResponse.status = 500

\* a valid streaming request was received without a key: the call was
\* started, ended at the key check, and the handler answered 500
C19_Witness ==
  /\ pc = "done"
  /\ ~apiKeySet
  /\ phase = "stream"
  /\ upstreamCalls = 1
  /\ upstreamFetches = 0
  /\ httpResponse = ErrorResponse("Gemini streaming failed", 500)

\* the largest retry count at which the backoff formula is evaluated below
MaxBackoffExponent == 6

\* C20: the i-th backoff of a logical call, slept after the failed attempt
\* i-1, lasts 1000, 2000, 4000 ms for i = 1, 2, 3, whether the attempt
\* failed by status or by a network error; the delays never decrease and
\* never exceed 30000 ms, and the formula stays under that ceiling for
\* larger retry counts too.
C20_BackoffSchedule ==
  /\ Len(sleeps) <= 3
  /\ Len(sleeps) <= Len(attempts)
  /\ \A i \in 1..Len(sleeps) :
       /\ sleeps[i] = <<1000, 2000, 4000>>[i]
       /\ sleeps[i] <= 30000
       /\ i > 1 => sleeps[i - 1] <= sleeps[i]
       /\ \/ attempts[i].kind = "error"
          \/ attempts[i].kind = "response" /\ ~Ok(attempts[i].status)
  /\ pc = "sleeping" => Len(sleeps) = Len(attempts)
  /\ \A n \in 0..MaxBackoffExponent :
       /\ BackoffDelay(n) <= 30000
       /\ n > 0 => BackoffDelay(n - 1) <= BackoffDelay(n)
       /\ n <= 4 => BackoffDelay(n) = 1000 * (2 ^ n)

\* a network failure, a 503 and a 500 in a row: three backoffs slept
C20_Witness ==
  /\ sleeps = <<1000, 2000, 4000>>
  /\ attempts[1].kind = "error"
  /\ attempts[2] = [kind |-> "response", status |-> 503]
  /\ attempts[3] = [kind |-> "response", status |-> 500]

(***************************************************************************)
(* The stream transformer of handleStreamingRequest.  Chunks are texts;    *)
(* JSON documents are texts too, read by JSONParse and written by          *)
(* JSONStringify.  A parsed value carries its JavaScript type.             *)
(***************************************************************************)
MaxChunks == 2

JsonObject(r) == [type |-> "object", object |-> r]

\* the truthiness test of `if (processed)`
Truthy(v) ==
  CASE v.type = "object" -> TRUE
    [] v.type = "number" -> v.number # 0
    [] v.type = "boolean" -> v.boolean
    [] OTHER -> FALSE

RECURSIVE JoinWith(_, _)
JoinWith(items, sep) ==
  IF items = <<>> THEN ""
  ELSE IF Len(items) = 1 THEN items[1]
  ELSE items[1] \o sep \o JoinWith(Tail(items), sep)

\* JSON.stringify of a string without characters that need escaping
JsonString(t) == "\"" \o t \o "\""
JsonMember(key, json) == JsonString(key) \o ":" \o json
JsonObjectText(members) == "{" \o JoinWith(members, ",") \o "}"
JsonArrayText(items) == "[" \o JoinWith(items, ",") \o "]"

PartJson(part) ==
  JsonObjectText(
    (IF Has(part, "functionCall")
     THEN <<JsonMember("functionCall", JsonString(part.functionCall))>> ELSE <<>>)
    \o (IF Has(part, "text") THEN <<JsonMember("text", JsonString(part.text))>> ELSE <<>>))

ContentJson(content) ==
  JsonObjectText(
    (IF Has(content, "parts")
     THEN <<JsonMember("parts", JsonArrayText([i \in 1..Len(content.parts) |->
                                                 PartJson(content.parts[i])]))>>
     ELSE <<>>)
    \o (IF Has(content, "role") THEN <<JsonMember("role", JsonString(content.role))>>
        ELSE <<>>))

CandidateJson(candidate) ==
  JsonObjectText(
    (IF Has(candidate, "content")
     THEN <<JsonMember("content", ContentJson(candidate.content))>> ELSE <<>>)
    \o (IF Has(candidate, "finishReason")
        THEN <<JsonMember("finishReason", JsonString(candidate.finishReason))>> ELSE <<>>))

\* the JSON text of a response fragment, members in the order the upstream
\* sends them
ResponseJson(response) ==
  JsonObjectText(
    (IF Has(response, "candidates")
     THEN <<JsonMember("candidates",
                       JsonArrayText([i \in 1..Len(response.candidates) |->
                                        CandidateJson(response.candidates[i])]))>>
     ELSE <<>>)
    \o (IF Has(response, "usageMetadata")
        THEN <<JsonMember("usageMetadata", JsonString(response.usageMetadata))>>
        ELSE <<>>))

\* JSON.stringify(processed)
JSONStringify(v) ==
  CASE v.type = "object" -> ResponseJson(v.object)
    [] v.type = "number" -> SubSeq("0123456789", v.number + 1, v.number + 1)
    [] v.type = "boolean" -> IF v.boolean THEN "true" ELSE "false"
    [] OTHER -> "null"

\* The response fragments an upstream stream is made of.
Fragment(parts) ==
  [candidates |-> <<[content |-> [parts |-> parts, role |-> "model"]]>>]
LastFragment(parts) ==
  [candidates |-> <<[content |-> [parts |-> parts, role |-> "model"],
                     finishReason |-> "STOP"]>>]

StreamFragments ==
  { Fragment(<<[text |-> "Hello wor"]>>),
    LastFragment(<<[text |-> "ld!" \o FINISHED_TOKEN]>>),
    Fragment(<<[text |-> "ld!" \o FINISHED_TOKEN]>>),
    Fragment(<<[text |-> "[RESPONSE_"]>>),
    LastFragment(<<[text |-> "FINISHED]"]>>),
    LastFragment(<<[text |-> "Done." \o FINISHED_TOKEN \o FINISHED_TOKEN]>>),
    Fragment(<<FunctionCallPart, [text |-> "ok " \o REMINDER_PROMPT \o INCOMPLETE_TOKEN]>>),
    [candidates |-> <<[content |-> [parts |-> <<[text |-> "A"]>>, role |-> "model"]],
                      [content |-> [parts |-> <<[text |-> "B" \o FINISHED_TOKEN]>>,
                                    role |-> "model"]]>>],
    [candidates |-> <<>>, usageMetadata |-> "u1"] }

\* a document with white space between its tokens
SpacedJson ==
  "{ \"candidates\": [ { \"content\": { \"parts\": [ { \"text\": \"ld!"
    \o FINISHED_TOKEN \o "\" } ], \"role\": \"model\" } } ] }"

\* The texts that are JSON among the payloads of StreamChunks, each with the
\* value JSON.parse gives for it; every other payload below is not JSON.
JsonDocuments ==
  {<<ResponseJson(f), JsonObject(f)>> : f \in StreamFragments}
    \cup {<<SpacedJson, JsonObject(Fragment(<<[text |-> "ld!" \o FINISHED_TOKEN]>>))>>,
          <<"0", [type |-> "number", number |-> 0]>>,
          <<"true", [type |-> "boolean", boolean |-> TRUE]>>,
          <<"null", [type |-> "null"]>>}

\* JSON.parse(jsonData): around the document JSON's own white space (space,
\* LF, TAB, CR) is allowed and nothing else; any other text is a SyntaxError.
JSONParse(text) ==
  LET JsonWhite(t) == \A i \in 1..Len(t) : SubSeq(t, i, i) \in {" ", "\n", "\t", "\r"}
      rest == TrimStart(text)
      document == TrimEnd(rest)
      margins == SubSeq(text, 1, Len(text) - Len(rest))
                   \o SubSeq(rest, Len(document) + 1, Len(rest))
      hits == {d \in JsonDocuments : d[1] = document}
  IN IF ~JsonWhite(margins) \/ hits = {} THEN Throw("SyntaxError")
     ELSE Return((CHOOSE d \in hits : TRUE)[2])

\* the chain of .replace(...) calls of processStreamChunk: no .trim()
CleanStreamText(text) ==
  ReplaceFirst(ReplaceFirst(ReplaceFirst(text, FINISHED_TOKEN), INCOMPLETE_TOKEN),
               REMINDER_PROMPT)

\* the callback of candidate.content.parts.map in processStreamChunk
CleanStreamPart(part) ==
  IF Has(part, "text") /\ part.text # "" THEN [part EXCEPT !.text = CleanStreamText(@)]
  ELSE part

\* processStreamChunk(chunk), chunk being any parsed JSON value: reading
\* `candidates` of null raises, of a number or a boolean gives undefined
processStreamChunk(chunk) ==
  IF chunk.type = "null" THEN Throw("TypeError")
  ELSE IF chunk.type # "object" THEN Return(chunk)
  ELSE LET response == chunk.object IN
       IF ~Has(response, "candidates") \/ Len(response.candidates) = 0 THEN Return(chunk)
       ELSE LET candidate == response.candidates[1] IN
            IF ~Has(candidate, "content") \/ ~Has(candidate.content, "parts")
            THEN Return(chunk)
            ELSE Return(JsonObject(
                   [response EXCEPT !.candidates[1].content.parts =
                      [i \in 1..Len(candidate.content.parts) |->
                         CleanStreamPart(candidate.content.parts[i])]]))

\* text.split('\n')
RECURSIVE Split(_)
Split(text) ==
  LET i == IndexOf(text, "\n")
  IN IF i = 0 THEN <<text>>
     ELSE <<SubSeq(text, 1, i - 1)>> \o Split(SubSeq(text, i + 1, Len(text)))

\* what one controller.enqueue hands to the reader: the text, and the value
\* it was serialised from when it is a record the transformer wrote itself
PassedThrough(line) == [text |-> line \o "\n", value |-> None]
Record(processed) ==
  [text |-> "data: " \o JSONStringify(processed) \o "\n\n", value |-> processed]

\* a catch block that drops the line it could not process
CatchLine_Drop(line, e) ==
  [emit |-> <<>>, log |-> <<IF e = "SyntaxError" THEN "debug" ELSE "error">>]

\* the catch block of transform
CatchLine(line, e) ==
  [emit |-> <<PassedThrough(line)>>,
   log |-> <<IF e = "SyntaxError" THEN "debug" ELSE "error">>]

\* the body of the loop of transform for one line: what is enqueued and what
\* is logged
TransformLine(line) ==
  IF StartsWith(line, "data: ")
  THEN LET jsonData == SubSeq(line, 7, Len(line)) IN
       IF jsonData = "" \/ Trim(jsonData) = ""
       THEN [emit |-> <<PassedThrough(line)>>, log |-> <<>>]
       ELSE LET data == JSONParse(jsonData) IN
            IF data.threw THEN CatchLine(line, data.error)
            ELSE LET processed == processStreamChunk(data.value) IN
                 IF processed.threw THEN CatchLine(line, processed.error)
                 ELSE IF Truthy(processed.value)
                 THEN [emit |-> <<Record(processed.value)>>, log |-> <<>>]
                 ELSE [emit |-> <<>>, log |-> <<>>]
  ELSE [emit |-> <<PassedThrough(line)>>, log |-> <<>>]

\* a controller that hands the newest output to the reader first
Enqueue_Front(queue, entries) == entries \o queue

\* controller.enqueue: the readable side gets the outputs in call order
Enqueue(queue, entries) == queue \o entries

\* entries with the chunk and the line they come from
From(entries, c, l) ==
  [i \in 1..Len(entries) |-> entries[i] @@ [chunk |-> c, line |-> l]]

\* the loop of transform over the lines l.. of chunk c; lines that are
\* empty once trimmed were filtered out before the loop
RECURSIVE TransformLines(_, _, _, _)
TransformLines(lines, l, c, out) ==
  IF l > Len(lines) THEN out
  ELSE IF Trim(lines[l]) = "" THEN TransformLines(lines, l + 1, c, out)
  ELSE LET r == TransformLine(lines[l])
       IN TransformLines(lines, l + 1, c,
                         [emitted |-> Enqueue(out.emitted, From(r.emit, c, l)),
                          log |-> out.log \o From([i \in 1..Len(r.log) |->
                                                     [level |-> r.log[i]]], c, l)])

\* a transformer that ends the output of every chunk with an empty line
transform_ChunkTerminated(text, c, out) ==
  LET done == TransformLines(Split(text), 1, c, out)
  IN [done EXCEPT !.emitted = Enqueue(@, From(<<PassedThrough("")>>, c, 1))]

\* transform(chunk, controller) for the c-th chunk of the upstream body
transform(text, c, out) == TransformLines(Split(text), 1, c, out)

\* One server-sent event carrying fragment f.
Event(f) == "data: " \o ResponseJson(f) \o "\n\n"

\* where a chunk boundary falls inside a line
SplitAt == 30

\* The chunks an upstream body is made of: whole events, the stream of the
\* transform example, comment and field lines, CRLF line ends, payloads
\* that are JSON but no object, an event cut in two inside its payload, and
\* an event with CRLF line ends cut in two before its line end, and lines
\* whose payload is, or starts with, white space that JSON does not allow
\* (FF; VT, ZWNBSP and OGHAM SPACE MARK, NBSP).
StreamChunks ==
  {Event(f) : f \in StreamFragments}
    \cup { Event(LastFragment(<<[text |-> "ld!" \o FINISHED_TOKEN]>>)) \o "data: {malformed\n\n",
           ": keep-alive\n\n",
           "event: message\ndata: \ndata: " \o SpacedJson \o "\r\n\r\n",
           "data: 0\n\n",
           "data: null\n\ndata: true\n\n",
           SubSeq(Event(Fragment(<<[text |-> "Hello wor"]>>)), 1, SplitAt),
           SubSeq(Event(Fragment(<<[text |-> "Hello wor"]>>)), SplitAt + 1,
                  Len(Event(Fragment(<<[text |-> "Hello wor"]>>)))),
           "data: " \o ResponseJson(Fragment(<<[text |-> "Hello wor"]>>)),
           "\r\n\r\n",
           "data: \f\n\f\ndata: \f" \o SpacedJson \o "\n\n",
           "data: \n﻿ \ndata:  " \o SpacedJson \o "\n\n" }

InitStream ==
  /\ HandlerIdle /\ ClientIdle
  /\ fnIn \in {[chunks |-> cs] : cs \in SeqsUpTo(StreamChunks, MaxChunks)}
  /\ fnOut = [read |-> 0, emitted |-> <<>>, log |-> <<>>]

\* The transformer is handed the next chunk of the upstream body.
TransformChunk ==
  /\ fnOut.read < Len(fnIn.chunks)
  /\ LET c == fnOut.read + 1
         out == transform(fnIn.chunks[c], c, [emitted |-> fnOut.emitted, log |-> fnOut.log])
     IN fnOut' = [read |-> c, emitted |-> out.emitted, log |-> out.log]
  /\ UNCHANGED <<handlerVars, clientVars, fnIn>>

SpecStream == InitStream /\ [][TransformChunk]_vars

(***************************************************************************)
(* Claims about the stream transformer.                                    *)
(***************************************************************************)
\* the lines of a text: the pieces that end in a line feed, and what is left
\* after the last line feed when that is not empty
LinesOf(text) ==
  LET pieces == Split(text)
  IN IF pieces[Len(pieces)] = "" THEN SubSeq(pieces, 1, Len(pieces) - 1) ELSE pieces

IsDataLine(line) == StartsWith(line, "data: ")
IsBlank(line) == \A i \in 1..Len(line) : SubSeq(line, i, i) \in WhiteSpace
Payload(line) == SubSeq(line, 7, Len(line))

\* the chunks read so far and the lines of each
ReadChunks == 1..fnOut.read
InputLines(c) == LinesOf(fnIn.chunks[c])

\* the positions in the output of what line l of chunk c produced
OutputsOf(c, l) ==
  {i \in 1..Len(fnOut.emitted) : fnOut.emitted[i].chunk = c /\ fnOut.emitted[i].line = l}

\* the output text produced while chunk c was transformed
OutputText(c) ==
  LET idx == {i \in 1..Len(fnOut.emitted) : fnOut.emitted[i].chunk = c}
      RECURSIVE Cat(_)
      Cat(i) == IF i > Len(fnOut.emitted) THEN ""
                ELSE (IF i \in idx THEN fnOut.emitted[i].text ELSE "") \o Cat(i + 1)
  IN Cat(1)

BlankLines(lines) == Cardinality({l \in 1..Len(lines) : IsBlank(lines[l])})

\* C13: every input line that does not start with "data: " reaches the
\* output unchanged: a line with text in it is emitted once, as it is, and
\* the output of a chunk has at least as many blank lines as the chunk had
\* (the blank line that ends a rewritten record counts among them).
C13_PassThroughLines ==
  \A c \in ReadChunks :
    /\ \A l \in 1..Len(InputLines(c)) :
         (~IsDataLine(InputLines(c)[l]) /\ ~IsBlank(InputLines(c)[l])) =>
           /\ Cardinality(OutputsOf(c, l)) = 1
           /\ \A i \in OutputsOf(c, l) : fnOut.emitted[i].text = InputLines(c)[l] \o "\n"
    /\ BlankLines(LinesOf(OutputText(c))) >= BlankLines(InputLines(c))

\* the payload of the line is not JSON
Malformed(line) ==
  IsDataLine(line) /\ ~IsBlank(Payload(line)) /\ JSONParse(Payload(line)).threw

\* the payload of the line is a JSON object
IsFragmentLine(line) ==
  /\ IsDataLine(line) /\ ~IsBlank(Payload(line)) /\ ~Malformed(line)
  /\ JSONParse(Payload(line)).value.type = "object"

\* the line is one the transformer answers with an output
Answered(line) ==
  \/ ~IsDataLine(line) /\ ~IsBlank(line)
  \/ Malformed(line)
  \/ IsFragmentLine(line)

\* C14: a "data: " line whose payload is not JSON is emitted once, as it is;
\* the transformer goes on: every later line of the chunk and of the chunks
\* read after it that calls for an output has got one.
C14_MalformedFragment ==
  \A c \in ReadChunks : \A l \in 1..Len(InputLines(c)) :
    Malformed(InputLines(c)[l]) =>
      /\ Cardinality(OutputsOf(c, l)) = 1
      /\ \A i \in OutputsOf(c, l) :
           /\ fnOut.emitted[i].text = InputLines(c)[l] \o "\n"
           /\ fnOut.emitted[i].value = None
      /\ \A d \in ReadChunks : \A k \in 1..Len(InputLines(d)) :
           ((d > c \/ (d = c /\ k > l)) /\ Answered(InputLines(d)[k])) =>
             OutputsOf(d, k) # {}

\* the stream of the transform example, then one more event: the record, the
\* malformed line as it was, and the record of the next chunk
C14_Witness ==
  /\ fnOut.read = 2
  /\ fnIn.chunks[1] = Event(LastFragment(<<[text |-> "ld!" \o FINISHED_TOKEN]>>))
                        \o "data: {malformed\n\n"
  /\ fnIn.chunks[2] = Event(Fragment(<<[text |-> "Hello wor"]>>))
  /\ Len(fnOut.emitted) = 3
  /\ fnOut.emitted[2].text = "data: {malformed\n"
  /\ fnOut.emitted[3].text = Event(Fragment(<<[text |-> "Hello wor"]>>))

\* the protocol-internal strings
ProtocolTokens == {FINISHED_TOKEN, INCOMPLETE_TOKEN, REMINDER_PROMPT}

\* the parts of every candidate of a fragment, in order
RECURSIVE AllParts(_)
AllParts(candidates) ==
  IF candidates = <<>> THEN <<>>
  ELSE (IF Has(Head(candidates), "content") /\ Has(Head(candidates).content, "parts")
        THEN Head(candidates).content.parts ELSE <<>>) \o AllParts(Tail(candidates))

FragmentParts(response) ==
  IF Has(response, "candidates") THEN AllParts(response.candidates) ELSE <<>>

\* C15: every "data: " line whose payload parses as a response fragment is
\* answered by one record "data: <JSON>" followed by a blank line, and no
\* text part of the fragment in that record contains the finished marker,
\* the incomplete marker or the reminder string.
C15_FragmentCleaned ==
  \A c \in ReadChunks : \A l \in 1..Len(InputLines(c)) :
    IsFragmentLine(InputLines(c)[l]) =>
      /\ Cardinality(OutputsOf(c, l)) = 1
      /\ \A i \in OutputsOf(c, l) :
           LET e == fnOut.emitted[i] IN
           /\ e.value # None
           /\ e.value.type = "object"
           /\ e.text = "data: " \o ResponseJson(e.value.object) \o "\n\n"
           /\ \A j \in 1..Len(FragmentParts(e.value.object)) :
                Has(FragmentParts(e.value.object)[j], "text") =>
                  \A t \in ProtocolTokens :
                    ~Includes(FragmentParts(e.value.object)[j].text, t)

\* the text delivered to the caller: the text parts of the emitted records,
\* in order
RECURSIVE DeliveredText(_)
DeliveredText(emitted) ==
  IF emitted = <<>> THEN ""
  ELSE (IF Head(emitted).value # None /\ Head(emitted).value.type = "object"
        THEN JoinText(FragmentParts(Head(emitted).value.object)) ELSE "")
       \o DeliveredText(Tail(emitted))

\* C16: whatever events the upstream text is spread over, the text delivered
\* so far contains no finished marker, incomplete marker or reminder string.
C16_DeliveredTextClean ==
  \A t \in ProtocolTokens : ~Includes(DeliveredText(fnOut.emitted), t)

\* C17: the outputs stand in the order of the lines they come from, every
\* output comes from a line of a chunk already read, and each line's output
\* is there, whole, as soon as its chunk has been read: it is what the line
\* alone calls for.
C17_StreamOrdering ==
  /\ \A i, j \in 1..Len(fnOut.emitted) :
       i < j => \/ fnOut.emitted[i].chunk < fnOut.emitted[j].chunk
                \/ /\ fnOut.emitted[i].chunk = fnOut.emitted[j].chunk
                   /\ fnOut.emitted[i].line < fnOut.emitted[j].line
  /\ \A i \in 1..Len(fnOut.emitted) :
       /\ fnOut.emitted[i].chunk \in ReadChunks
       /\ fnOut.emitted[i].line \in 1..Len(InputLines(fnOut.emitted[i].chunk))
  /\ \A c \in ReadChunks : \A l \in 1..Len(InputLines(c)) :
       LET due == IF IsBlank(InputLines(c)[l]) THEN <<>>
                  ELSE TransformLine(InputLines(c)[l]).emit
       IN /\ Cardinality(OutputsOf(c, l)) = Len(due)
          /\ \A i \in OutputsOf(c, l) :
               /\ fnOut.emitted[i].text = due[1].text
               /\ fnOut.emitted[i].value = due[1].value

\* a chunk of three lines with text and then an event: four outputs, the
\* first three from lines 1, 2, 3 of chunk 1, the last from chunk 2
C17_Witness ==
  /\ fnOut.read = 2
  /\ Len(fnOut.emitted) = 4
  /\ fnOut.emitted[1].text = "event: message\n"
  /\ fnOut.emitted[2].text = "data: \n"
  /\ fnOut.emitted[3].line = 3
  /\ fnOut.emitted[4].chunk = 2
  /\ fnOut.emitted[4].text = Event(LastFragment(<<[text |-> "FINISHED]"]>>))

(***************************************************************************)
(* Claims about the upstream client, continued.                            *)
(***************************************************************************)
\* C21: while every attempt of a logical call has failed at network level
\* (connection reset, timeout), the call backs off 1000, 2000, 4000 ms as
\* for retryable statuses, makes 4 attempts in all, and then fails with the
\* cause of the 4th.
C21_NetworkFailureRetry ==
  (/\ attempts # <<>>
   /\ \A i \in 1..Len(attempts) : attempts[i].kind = "error") =>
    /\ Len(attempts) <= 4
    /\ \A i \in 1..Len(sleeps) : sleeps[i] = <<1000, 2000, 4000>>[i]
    /\ pc = "sleeping" => Len(sleeps) = Len(attempts) /\ Len(attempts) <= 3
    /\ pc = "fetching" => Len(sleeps) = Len(attempts)
    /\ pc = "callEnded" =>
         /\ Len(attempts) = 4
         /\ upstreamFetches = 4
         /\ sleeps = <<1000, 2000, 4000>>
         /\ callResult = Throw(attempts[4])

\* three connection resets and a timeout: the call failed with the timeout
C21_Witness ==
  /\ pc = "callEnded"
  /\ Len(attempts) = 4
  /\ \A i \in 1..3 : attempts[i] = [kind |-> "error", cause |-> "connection reset"]
  /\ attempts[4] = [kind |-> "error", cause |-> "timeout"]
  /\ callResult.threw
  /\ callResult.error.cause = "timeout"

(***************************************************************************)
(* Claims about the augmenter, continued.                                  *)
(***************************************************************************)
\* C22: after two augmentations the system instruction text starts with the
\* caller's system instruction text (empty when there was none) and ends
\* with the mandate.
C22_DoubleAugmentation ==
  fnOut # None =>
    LET S == IF Has(fnIn.request, "systemInstruction")
                  /\ Has(fnIn.request.systemInstruction, "parts")
             THEN SystemText(fnIn.request) ELSE ""
    IN /\ ~fnOut.threw
       /\ StartsWith(SystemText(fnOut.value), S)
       /\ EndsWith(SystemText(fnOut.value), FINISH_TOKEN_PROMPT)

\* the status is an error status outside the retryable set
NonRetryable(a) == a.kind = "response" /\ a.status >= 400 /\ a.status \notin {503, 403, 429}

\* C25: an attempt answered with an error status outside {503, 403, 429} is
\* the last attempt of its call: no backoff follows it, no further fetch is
\* issued, and the call has failed with the error carrying that status.
C25_NonRetryableNotRetried ==
  \A i \in 1..Len(attempts) :
    NonRetryable(attempts[i]) =>
      /\ Len(attempts) = i
      /\ Len(sleeps) < i
      /\ upstreamFetches = i
      /\ pc = "callEnded"
      /\ callResult = Throw(StatusError(attempts[i].status))

\* the attempts of the call are k >= 1 retryable statuses followed by
\* network failures only, the first of them being attempt first
StatusThenNetwork(first) ==
  /\ first > 1
  /\ first <= Len(attempts)
  /\ \A i \in 1..(first - 1) : Retryable(attempts[i])
  /\ \A i \in first..Len(attempts) : attempts[i].kind = "error"

\* C26 as stated: a call retried k >= 1 times for a bad status whose later
\* attempts all fail at network level ends only after 3 network-failure
\* retries of their own, that is after 4 network failures.
C26_IndependentCounters ==
  \A first \in 1..Len(attempts) :
    (StatusThenNetwork(first) /\ pc = "callEnded") =>
      Len(attempts) - first = MAX_FETCH_RETRIES

\* C26 amended: the retries for bad statuses and for network failures share
\* one counter; a call retried k >= 1 times for a bad status whose later
\* attempts all fail at network level ends after 4 attempts in all, that is
\* after 3 - (k - 1) network failures, having slept 3 backoffs in all.
C26_SharedCounter ==
  \A first \in 1..Len(attempts) :
    StatusThenNetwork(first) =>
      /\ Len(attempts) <= MAX_FETCH_RETRIES + 1
      /\ pc = "callEnded" =>
           /\ Len(attempts) = MAX_FETCH_RETRIES + 1
           /\ Len(attempts) - first = MAX_FETCH_RETRIES - (first - 1)
           /\ Len(sleeps) = MAX_FETCH_RETRIES
           /\ callResult = Throw(attempts[Len(attempts)])

\* a 503, a 429 and then two timeouts: the call has failed after one
\* network-failure retry
C26_Witness ==
  /\ pc = "callEnded"
  /\ Len(attempts) = 4
  /\ attempts[1] = [kind |-> "response", status |-> 503]
  /\ attempts[2] = [kind |-> "response", status |-> 429]
  /\ attempts[3] = [kind |-> "error", cause |-> "timeout"]
  /\ attempts[4] = [kind |-> "error", cause |-> "timeout"]
  /\ callResult.threw

\* once the key check has passed, attempt number i runs with retry counter
\* i - 1 and at most MAX_FETCH_RETRIES + 1 fetches are issued
AttemptBound ==
  /\ upstreamFetches <= MAX_FETCH_RETRIES + 1
  /\ retryCount <= MAX_FETCH_RETRIES
  /\ pc = "fetching" => upstreamFetches = retryCount + 1 /\ Len(attempts) = retryCount
  /\ pc \in {"sleeping", "callEnded"} =>
       upstreamFetches = Len(attempts) /\ (apiKeySet => Len(attempts) = retryCount + 1)

\* C27: whatever the outcomes of the attempts, a call issues at most 4
\* fetches, the retry counter goes up by one from 0 with each attempt, and
\* the call ends, with a response or with an error.
C27_GlobalAttemptBound ==
  /\ []AttemptBound
  /\ [][retryCount' = retryCount \/ retryCount' = retryCount + 1]_vars
  /\ <>(pc = "callEnded" /\ callResult # None)

\* a 500, a timeout, a 503 and then a 200: the 4th fetch ended the call
C27_Witness ==
  /\ pc = "callEnded"
  /\ upstreamFetches = 4
  /\ retryCount = 3
  /\ attempts[1] = [kind |-> "response", status |-> 500]
  /\ attempts[2] = [kind |-> "error", cause |-> "timeout"]
  /\ attempts[3] = [kind |-> "response", status |-> 503]
  /\ attempts[4] = [kind |-> "response", status |-> 200]
  /\ ~callResult.threw

(***************************************************************************)
(* Claims about the two paths of the orchestrator.                         *)
(***************************************************************************)
\* the request passes the path and model gate and asks for a stream
StreamingRequest ==
  /\ ~InvalidRequest
  /\ Includes(pathname, "streamGenerateContent")

\* C24: every streaming request causes exactly one logical upstream call, a
\* streaming one: by the time it is answered the call has been made, the
\* detector's verdict was never acted upon, no continuation request was
\* sent, and when the call returned a response the caller gets its status
\* and its body piped through the transformer.
C24_StreamingNoCompletionRetry ==
  StreamingRequest =>
    /\ phase \in {"none", "stream"}
    /\ upstreamCalls <= 1
    /\ incompleteResponse = None
    /\ call # None => call.isStreaming
    /\ pc = "done" =>
         /\ upstreamCalls = 1
         /\ upstreamFetches <= MAX_FETCH_RETRIES + 1
         /\ ~callResult.threw =>
              httpResponse = [kind |-> "response", status |-> callResult.value.status,
                              body |-> [stream |-> "piped through the transformer"]]

\* the text of candidate 0 of a response carries the finished marker
CarriesMarker(response) ==
  HasParts0(response) /\ Includes(JoinText(Parts0(response)), FINISHED_TOKEN)

\* C28: a non-streaming request causes at most two logical upstream calls;
\* the second is the continuation, sent only after a first response without
\* the finished marker; its response is combined and returned whether or
\* not it carries the marker, and no third call is made.
C28_SingleContinuation ==
  (~InvalidRequest /\ ~Includes(pathname, "streamGenerateContent")) =>
    /\ upstreamCalls <= 2
    /\ phase \in {"none", "first", "continuation"}
    /\ upstreamCalls = 2 <=> phase = "continuation"
    /\ phase = "continuation" =>
         /\ incompleteResponse # None
         /\ ~CarriesMarker(incompleteResponse)
         /\ ~call.isStreaming
    /\ (ContinuationSucceeded /\ callResult.value.body.json
          /\ HasParts0(callResult.value.body.value)) =>
         httpResponse = JsonResponse(callResult.value.status,
                          combineResponses(incompleteResponse,
                                           callResult.value.body.value).value)

\* 'Hello wor' first, then a continuation 'ld!' without the marker: the
\* combined response is returned after two calls
C28_Witness ==
  /\ ContinuationSucceeded
  /\ upstreamCalls = 2
  /\ Parts0(incompleteResponse) = <<[text |-> "Hello wor"]>>
  /\ callResult.value.body = BodyOf(<<[text |-> "ld!"]>>, "bare")
  /\ httpResponse.status = 200
  /\ Parts0(httpResponse.body.json) = <<[text |-> "ld!"]>>

\* C29: within a logical call a fetch is issued only when every earlier
\* attempt of the call has settled and the backoff after each has been
\* slept, so at most one fetch is in flight; the continuation call exists
\* only once the first call has returned its response.
C29_SequentialRetries ==
  /\ pc = "fetching" =>
       /\ upstreamFetches >= 1
       /\ Len(attempts) = retryCount
       /\ Len(sleeps) = Len(attempts)
  /\ pc = "sleeping" =>
       /\ Len(attempts) = retryCount + 1
       /\ Len(sleeps) = Len(attempts)
  /\ \A i \in 1..Len(sleeps) : sleeps[i] = BackoffDelay(i - 1)
  /\ (retryCount + 1) - Len(attempts) \in {0, 1}
  /\ (retryCount + 1) - Len(attempts) = 1 <=> (pc = "fetching" \/ ~apiKeySet \/ call = None)
  /\ phase = "continuation" =>
       /\ upstreamCalls = 2
       /\ incompleteResponse # None
       /\ pc # "received"

\* the continuation call is at its third attempt: two attempts settled, two
\* backoffs slept, one fetch in flight
C29_Witness ==
  /\ phase = "continuation"
  /\ pc = "fetching"
  /\ retryCount = 2
  /\ Len(attempts) = 2
  /\ sleeps = <<1000, 2000>>

(***************************************************************************)
(* The request of one attempt of makeGeminiRequestWithRetry, and what the  *)
(* client and its handler write about the attempt: log entries and the     *)
(* details of the error response.                                          *)
(***************************************************************************)
\* values of GEMINI_API_KEY
ApiKeys == {"AIzaSyA-server", "AIzaSyB-server"}
\* url.search of the inbound request: empty, or "?" and the caller's query
SearchParams == {"", "?alt=sse", "?alt=sse&key=AIzaSyA-server", "?key=AIzaSyC-caller"}

\* response.statusText, as the upstream sends it
StatusText(status) ==
  CASE status = 200 -> "OK"
    [] status = 400 -> "Bad Request"
    [] status = 503 -> "Service Unavailable"

\* a request that authenticates through the query string
FetchRequest_KeyInUrl(c, apiKey) ==
  LET endpoint == IF c.isStreaming THEN "streamGenerateContent" ELSE "generateContent"
      baseUrl == "https://generativelanguage.googleapis.com/v1beta/models/"
                   \o c.model \o ":" \o endpoint
  IN [url |-> (IF c.searchParams # "" THEN baseUrl \o c.searchParams \o "&key="
               ELSE baseUrl \o "?key=") \o apiKey,
      method |-> "POST",
      headers |-> ("Content-Type" :> "application/json")]

\* fetch(url, {method, headers, ...}); the body is JSON.stringify(request)
\* and the signal the 30 s abort, neither looks at the key.
FetchRequest(c, apiKey) ==
  LET endpoint == IF c.isStreaming THEN "streamGenerateContent" ELSE "generateContent"
      baseUrl == "https://generativelanguage.googleapis.com/v1beta/models/"
                   \o c.model \o ":" \o endpoint
  IN [url |-> IF c.searchParams # "" THEN baseUrl \o c.searchParams ELSE baseUrl,
      method |-> "POST",
      headers |-> ("Content-Type" :> "application/json") @@ ("X-Goog-Api-Key" :> apiKey)]

\* error.message of what is thrown: by the client (line 298), by fetch, by
\* response.json() (the parser's message, given with the body), or by a
\* property read of undefined or of a missing element (V8's text)
ErrorMessage(error) ==
  CASE error.kind = "status" ->
         "Gemini API request failed with status " \o ToString(error.status) \o ": "
           \o StatusText(error.status)
    [] error.kind = "syntax" -> error.message
    [] error.kind = "type" ->
         "Cannot read properties of undefined (reading '" \o error.reading \o "')"
    [] OTHER -> error.cause

\* the TypeError of combineResponses for a continuation body without
\* candidates[0].content.parts (lines 418-420)
CombineError(complete) ==
  [kind |-> "type",
   reading |-> IF ~Has(complete, "candidates") THEN "0"
               ELSE IF Len(complete.candidates) = 0 THEN "content"
               ELSE IF ~Has(complete.candidates[1], "content") THEN "parts"
               ELSE "map"]

\* The catch block of the function that awaits the call (c.phase): the
\* arguments of logger.error and of createErrorResponse; the fallback of
\* handleIncompleteResponse is no error response.
Caught(c, error, duration) ==
  CASE c.phase = "stream" ->
         <<"Gemini streaming error (" \o c.model \o "):", ErrorMessage(error),
           "Gemini streaming failed", "500",
           ErrorMessage(error) \o " (" \o ToString(duration) \o "ms)">>
    [] c.phase = "first" ->
         <<"Gemini non-streaming error (" \o c.model \o "):", ErrorMessage(error),
           "Gemini request failed", "500",
           ErrorMessage(error) \o " (" \o ToString(duration) \o "ms)">>
    [] c.phase = "continuation" -> <<"Retry failed:", ErrorMessage(error)>>

\* The texts written when the fetch of an attempt with retryCount = n
\* settles with `outcome`, in order: the arguments of logger.debug /
\* logger.log / logger.error and of createErrorResponse.
WrittenAtSettle(c, n, outcome, url, duration) ==
  LET count == " (" \o ToString(n + 1) \o "/" \o ToString(MAX_FETCH_RETRIES) \o ")"
      thrown(error) ==
        IF MayRetry(n) THEN <<"Retrying Gemini request due to error" \o count>>
        ELSE Caught(c, error, duration)
  IN IF outcome.kind = "response"
     THEN IF ~Ok(outcome.status)
          THEN IF outcome.status \in RETRYABLE_STATUS_CODES /\ MayRetry(n)
               THEN <<"Retrying Gemini request" \o count>>
               ELSE thrown(StatusError(outcome.status))
          ELSE IF c.phase = "stream"
          THEN \* response.url of a response that was not redirected
               <<"GEMINI-ANTI-STREAM", c.model, url, ToString(outcome.status)>>
          ELSE <<>>
     ELSE thrown(outcome)

\* `await response.json()` follows the call: a 2xx answer outside the
\* streaming path
ReadsBody(c, outcome) ==
  outcome.kind = "response" /\ Ok(outcome.status) /\ c.phase # "stream"

\* The texts written after `await response.json()` has settled.
WrittenAtBody(c, outcome, url, duration) ==
  IF ~outcome.body.json
  THEN Caught(c, [kind |-> "syntax", message |-> outcome.body.message], duration)
  ELSE IF c.phase = "first"
  THEN IF isResponseComplete(outcome.body.value)
       THEN <<"GEMINI-ANTI", c.model, url, ToString(outcome.status)>>
       ELSE <<"Handling incomplete response, attempting retry">>
  ELSE IF combineResponses(c.incomplete, outcome.body.value).threw
  THEN Caught(c, CombineError(outcome.body.value), duration)
  ELSE <<>>

\* every text written about the attempt
Written(c, n, outcome, url, duration) ==
  WrittenAtSettle(c, n, outcome, url, duration)
    \o (IF ReadsBody(c, outcome) THEN WrittenAtBody(c, outcome, url, duration) ELSE <<>>)

\* Bodies of a 2xx answer: a complete response, a response without the
\* marker, JSON without candidates, and a text that is no JSON.
AttemptBodies ==
  {BodyOf(<<[text |-> "ld!" \o FINISHED_TOKEN]>>, "stop"),
   BodyOf(<<[text |-> "Hello wor"]>>, "max"),
   [json |-> TRUE, value |-> [usageMetadata |-> "u0"]],
   [json |-> FALSE, message |-> "Unexpected token '<', \"<html>\" is not valid JSON"]}

\* What the fetch of the attempt can settle with.
AttemptOutcomes(ph) ==
  {[kind |-> "response", status |-> 200, body |-> b] :
     b \in IF ph = "stream" THEN {StreamBody} ELSE AttemptBodies}
    \cup {[kind |-> "response", status |-> s] : s \in {400, 503}}
    \cup {[kind |-> "error", cause |-> "The signal has been aborted"]}

InitFetchRequest ==
  /\ HandlerIdle /\ ClientIdle
  /\ fnIn \in UNION {{[model |-> mo, searchParams |-> q, phase |-> ph,
                       isStreaming |-> (ph = "stream"),
                       incomplete |-> BodyOf(<<[text |-> "Hello wor"]>>, "max").value,
                       apiKey |-> k, retryCount |-> n, duration |-> d, outcome |-> o] :
                        mo \in TARGET_MODELS, q \in SearchParams, k \in ApiKeys,
                        n \in {0, MAX_FETCH_RETRIES}, d \in {12, 30007},
                        o \in AttemptOutcomes(ph)} :
                     ph \in {"first", "stream", "continuation"}}
  /\ fnOut = None

\* makeGeminiRequestWithRetry up to `await fetch`: the request is issued
IssueFetch ==
  /\ fnOut = None
  /\ fnOut' = [fetch |-> FetchRequest(fnIn, fnIn.apiKey), written |-> <<>>, at |-> "fetching"]
  /\ UNCHANGED <<handlerVars, clientVars, fnIn>>

\* the fetch settles: the client retries, throws into the catch block of
\* its caller, or returns the response to it
FetchSettles ==
  /\ fnOut # None /\ fnOut.at = "fetching"
  /\ fnOut' = [fnOut EXCEPT
                 !.written = WrittenAtSettle(fnIn, fnIn.retryCount, fnIn.outcome,
                                             fnOut.fetch.url, fnIn.duration),
                 !.at = IF ReadsBody(fnIn, fnIn.outcome) THEN "readingResponse"
                        ELSE "settled"]
  /\ UNCHANGED <<handlerVars, clientVars, fnIn>>

\* `await response.json()` settles in the caller
ResponseJsonSettles ==
  /\ fnOut # None /\ fnOut.at = "readingResponse"
  /\ fnOut' = [fnOut EXCEPT
                 !.written = @ \o WrittenAtBody(fnIn, fnIn.outcome, fnOut.fetch.url,
                                                fnIn.duration),
                 !.at = "settled"]
  /\ UNCHANGED <<handlerVars, clientVars, fnIn>>

NextFetchRequest ==
  \/ IssueFetch
  \/ FetchSettles
  \/ ResponseJsonSettles

SpecFetchRequest == InitFetchRequest /\ [][NextFetchRequest]_vars

\* the URL template of the upstream contract with the caller's query string
UrlTemplate ==
  "https://generativelanguage.googleapis.com/v1beta/models/" \o fnIn.model \o ":"
    \o (IF fnIn.isStreaming THEN "streamGenerateContent" ELSE "generateContent")
    \o fnIn.searchParams

\* the URL and every text written about the attempt
Disclosed == {fnOut.fetch.url} \cup {fnOut.written[i] : i \in DOMAIN fnOut.written}

\* C30 as stated: for every model, endpoint and query string the URL is the
\* template followed by the query string verbatim, the key is sent in the
\* X-Goog-Api-Key header, and the key value appears in no URL and in no
\* log or error message.
C30_KeyInNoUrlOrLog ==
  fnOut # None =>
    /\ fnOut.fetch.url = UrlTemplate
    /\ fnOut.fetch.headers["X-Goog-Api-Key"] = fnIn.apiKey
    /\ \A text \in Disclosed : ~Includes(text, fnIn.apiKey)

\* C30: the URL is the template followed by the caller's query string
\* verbatim and the key is sent in the X-Goog-Api-Key header; the URL and
\* every log or error text are the same whatever the key is, so the key
\* value appears in them only where the caller's own query string carries it.
C30_KeyOnlyInHeader ==
  fnOut # None =>
    /\ fnOut.fetch.url = UrlTemplate
    /\ fnOut.fetch.headers["X-Goog-Api-Key"] = fnIn.apiKey
    /\ \A k \in ApiKeys :
         LET other == FetchRequest(fnIn, k)
         IN /\ other.url = fnOut.fetch.url
            /\ fnOut.at = "settled" =>
                 Written(fnIn, fnIn.retryCount, fnIn.outcome, other.url, fnIn.duration)
                   = fnOut.written
    /\ \A text \in Disclosed :
         Includes(text, fnIn.apiKey) => Includes(fnIn.searchParams, fnIn.apiKey)

\* a streaming call with a query string that holds no key was answered 200
\* and its URL logged
C30_Witness ==
  /\ fnOut # None /\ fnOut.at = "settled"
  /\ fnIn.searchParams = "?alt=sse" /\ fnIn.isStreaming
  /\ fnIn.outcome = [kind |-> "response", status |-> 200, body |-> StreamBody]
  /\ ~Includes(fnIn.searchParams, fnIn.apiKey)
  /\ fnOut.written[3] = fnOut.fetch.url

(***************************************************************************)
(* The rate limiter in front of the handlers: class RateLimiter, as        *)
(* mainHandler constructs and asks it.  fnIn holds the constructor's       *)
(* arguments, fnOut the limiter, the clock (Date.now()) and the answers    *)
(* given so far.  The entries of the Map stay far below the 1000 that      *)
(* force a cleanup and the 50 that end a cleanup cycle.                    *)
(***************************************************************************)
\* Largest maxRequests (MAX_REQUESTS_PER_MINUTE) the limiter is built with.
MaxRequests == 2
\* Largest number of isAllowed calls in a behaviour.
MaxIsAllowed == 4
\* Largest number of clock advances in a behaviour.
MaxTicks == 2
\* getClientId(request) values
ClientIds == {"10.0.0.1", "10.0.0.2"}
\* milliseconds between two events
Elapsed == {10000, 20000, 40000}

\* requests.filter(time => now - time < this.windowMs)
ValidRequests(requests, now, windowMs) ==
  SelectSeq(requests, LAMBDA time : now - time < windowMs)

\* new RateLimiter(windowMs, maxRequests) at Date.now() = now
NewRateLimiter(windowMs, maxRequests, now) ==
  [windowMs |-> windowMs,
   maxRequests |-> maxRequests,
   cleanupInterval |-> IF windowMs \div 4 >= 15000 THEN windowMs \div 4 ELSE 15000,
   lastCleanup |-> now,
   requests |-> <<>>]

\* the loop of fullCleanup and of incrementalCleanup: every entry loses its
\* expired times, an entry left empty is deleted
Cleanup(requests, now, windowMs) ==
  LET kept == {c \in DOMAIN requests : ValidRequests(requests[c], now, windowMs) # <<>>}
  IN [c \in kept |-> ValidRequests(requests[c], now, windowMs)]

incrementalCleanup(this, now) ==
  IF now - this.lastCleanup < this.cleanupInterval /\ Cardinality(DOMAIN this.requests) <= 1000
  THEN this
  ELSE [this EXCEPT !.requests = Cleanup(this.requests, now, this.windowMs),
                    !.lastCleanup = now]

\* a limiter that lets a client through while it has exactly maxRequests
isAllowed_OffByOne(this, clientId, now) ==
  LET cleaned == incrementalCleanup(this, now)
      requests == IF clientId \in DOMAIN cleaned.requests
                  THEN cleaned.requests[clientId] ELSE <<>>
      validRequests == ValidRequests(requests, now, this.windowMs)
  IN IF Len(validRequests) > this.maxRequests
     THEN [this |-> cleaned, allowed |-> FALSE]
     ELSE [this |-> [cleaned EXCEPT !.requests =
                       [c \in DOMAIN cleaned.requests \cup {clientId} |->
                          IF c = clientId THEN Append(validRequests, now)
                          ELSE cleaned.requests[c]]],
           allowed |-> TRUE]

\* RateLimiter.isAllowed(clientId) at Date.now() = now: the limiter
\* afterwards and the answer
isAllowed(this, clientId, now) ==
  LET cleaned == incrementalCleanup(this, now)
      requests == IF clientId \in DOMAIN cleaned.requests
                  THEN cleaned.requests[clientId] ELSE <<>>
      validRequests == ValidRequests(requests, now, this.windowMs)
  IN IF Len(validRequests) >= this.maxRequests
     THEN [this |-> cleaned, allowed |-> FALSE]
     ELSE [this |-> [cleaned EXCEPT !.requests =
                       [c \in DOMAIN cleaned.requests \cup {clientId} |->
                          IF c = clientId THEN Append(validRequests, now)
                          ELSE cleaned.requests[c]]],
           allowed |-> TRUE]

InitRateLimiter ==
  /\ HandlerIdle /\ ClientIdle
  /\ fnIn \in {[windowMs |-> 60000, maxRequests |-> n] : n \in 1..MaxRequests}
  /\ fnOut = [limiter |-> NewRateLimiter(fnIn.windowMs, fnIn.maxRequests, 0),
              now |-> 0, ticks |-> 0, calls |-> <<>>]

\* mainHandler asks the limiter about a request of clientId
IsAllowed ==
  /\ Len(fnOut.calls) < MaxIsAllowed
  /\ \E clientId \in ClientIds :
       LET answer == isAllowed(fnOut.limiter, clientId, fnOut.now)
       IN fnOut' = [fnOut EXCEPT !.limiter = answer.this,
                                 !.calls = Append(@, [clientId |-> clientId,
                                                      time |-> fnOut.now,
                                                      allowed |-> answer.allowed])]
  /\ UNCHANGED <<handlerVars, clientVars, fnIn>>

\* the timer of startPeriodicCleanup fires
FullCleanup ==
  /\ fnOut' = [fnOut EXCEPT !.limiter.requests =
                 Cleanup(@, fnOut.now, fnOut.limiter.windowMs)]
  /\ UNCHANGED <<handlerVars, clientVars, fnIn>>

\* time passes
ClockAdvances ==
  /\ fnOut.ticks < MaxTicks
  /\ \E d \in Elapsed : fnOut' = [fnOut EXCEPT !.now = @ + d, !.ticks = @ + 1]
  /\ UNCHANGED <<handlerVars, clientVars, fnIn>>

NextRateLimiter ==
  \/ IsAllowed
  \/ FullCleanup
  \/ ClockAdvances

SpecRateLimiter == InitRateLimiter /\ [][NextRateLimiter]_vars

\* the calls of clientId answered true, among the first n calls, at a time
\* in the window of windowMs that ends at `time`
AllowedInWindow(clientId, n, time) ==
  {j \in 1..n : /\ fnOut.calls[j].clientId = clientId
                /\ fnOut.calls[j].allowed
                /\ time - fnOut.calls[j].time < fnIn.windowMs
                /\ fnOut.calls[j].time <= time}

\* the times of the calls of clientId answered true, in order
AllowedTimes(clientId) ==
  LET mine == SelectSeq(fnOut.calls, LAMBDA c : c.clientId = clientId /\ c.allowed)
  IN [j \in 1..Len(mine) |-> mine[j].time]

\* C23: for every client the calls answered true within any window of
\* windowMs are at most maxRequests; what the limiter keeps for a client are
\* the latest times of its calls answered true, so a denied call is not
\* recorded; and every answer is determined by the earlier calls of the same
\* client alone.
C23_RateLimit ==
  /\ \A i \in 1..Len(fnOut.calls) :
       LET c == fnOut.calls[i]
       IN /\ Cardinality(AllowedInWindow(c.clientId, Len(fnOut.calls), c.time))
               <= fnIn.maxRequests
          /\ c.allowed <=>
               Cardinality(AllowedInWindow(c.clientId, i - 1, c.time)) < fnIn.maxRequests
  /\ \A clientId \in DOMAIN fnOut.limiter.requests :
       LET kept == fnOut.limiter.requests[clientId]
           all == AllowedTimes(clientId)
       IN /\ Len(kept) <= Len(all)
          /\ kept = SubSeq(all, Len(all) - Len(kept) + 1, Len(all))

\* a client was denied while the other was let through at the same time,
\* and was let through again once its window had passed
C23_Witness ==
  \E i, j, k \in 1..Len(fnOut.calls) :
    /\ i < k
    /\ ~fnOut.calls[i].allowed /\ fnOut.calls[k].allowed
    /\ fnOut.calls[i].clientId = fnOut.calls[k].clientId
    /\ fnOut.calls[j].clientId # fnOut.calls[i].clientId
    /\ fnOut.calls[j].allowed /\ fnOut.calls[j].time = fnOut.calls[i].time

(***************************************************************************)
(* Claims about chunk boundaries of the stream.                            *)
(***************************************************************************)
\* the concatenated text of a sequence of outputs
TextOf(emitted) == JoinWith([i \in 1..Len(emitted) |-> emitted[i].text], "")

\* the concatenated output of the transformer for `text` given as one chunk
SingleChunkOutput(text) == TextOf(transform(text, 1, [emitted |-> <<>>, log |-> <<>>]).emitted)

\* every chunk ends right after a line feed
LineAligned == \A c \in 1..Len(fnIn.chunks) : EndsWith(fnIn.chunks[c], "\n")

\* C32: when every chunk of the upstream body ends right after a line feed,
\* the concatenated output for the chunks as delivered is the output for
\* the whole body delivered as one chunk, and also the output for the body
\* delivered line by line: it is the same for every line-aligned split.
C32_ChunkingInvariance ==
  (fnOut.read = Len(fnIn.chunks) /\ LineAligned) =>
    LET whole == JoinWith(fnIn.chunks, "")
        lines == LinesOf(whole)
    IN /\ TextOf(fnOut.emitted) = SingleChunkOutput(whole)
       /\ TextOf(fnOut.emitted)
            = JoinWith([l \in 1..Len(lines) |-> SingleChunkOutput(lines[l] \o "\n")], "")

\* two chunks of several lines each, both read, with output from both
C32_Witness ==
  /\ fnOut.read = 2 /\ LineAligned
  /\ fnIn.chunks[1] = "event: message\ndata: \ndata: " \o SpacedJson \o "\r\n\r\n"
  /\ fnIn.chunks[2] = Event(LastFragment(<<[text |-> "ld!" \o FINISHED_TOKEN]>>))
                        \o "data: {malformed\n\n"
  /\ \E i, j \in 1..Len(fnOut.emitted) :
       fnOut.emitted[i].chunk = 1 /\ fnOut.emitted[j].chunk = 2

\* the piece of a line that chunk c ends with, "" when it ends with a line feed
LastPiece(c) == Split(fnIn.chunks[c])[Len(Split(fnIn.chunks[c]))]
\* the piece of a line that chunk c starts with
FirstPiece(c) == Split(fnIn.chunks[c])[1]

\* the boundary between the chunks c and c + 1, both read, falls inside a
\* "data: " line that carries a response fragment
MidLineBoundary(c) ==
  /\ c \in ReadChunks /\ c + 1 \in ReadChunks
  /\ LastPiece(c) # "" /\ FirstPiece(c + 1) # ""
  /\ IsFragmentLine(LastPiece(c) \o FirstPiece(c + 1))

\* the two pieces of the line cut between the chunks c and c + 1 are emitted
\* as two lines of their own, as they are, and the output is not the one
\* for the line delivered whole
PiecesPassedThrough(c) ==
  LET l == Len(Split(fnIn.chunks[c]))
  IN /\ Cardinality(OutputsOf(c, l)) = 1 /\ Cardinality(OutputsOf(c + 1, 1)) = 1
     /\ \A i \in OutputsOf(c, l) : \A j \in OutputsOf(c + 1, 1) :
          /\ fnOut.emitted[i].text = LastPiece(c) \o "\n"
          /\ fnOut.emitted[j].text = FirstPiece(c + 1) \o "\n"
          /\ fnOut.emitted[i].value = None /\ fnOut.emitted[j].value = None
          /\ fnOut.emitted[i].text \o fnOut.emitted[j].text
               # SingleChunkOutput(LastPiece(c) \o FirstPiece(c + 1) \o "\n")

\* C33 as stated: wherever a chunk boundary falls inside a "data: " line,
\* the two pieces are emitted as two separate lines, neither cleaned, and
\* the output differs from the output for the line delivered whole.
C33_AnyMidLineBoundary ==
  \A c \in ReadChunks : MidLineBoundary(c) => PiecesPassedThrough(c)

\* C33: when a chunk boundary falls inside a "data: " line before the end
\* of its JSON payload (what follows the boundary is not white space only),
\* the two pieces are emitted as two separate lines, neither cleaned, and
\* the output differs from the output for the line delivered whole.
C33_BoundaryInsidePayload ==
  \A c \in ReadChunks :
    (MidLineBoundary(c) /\ ~IsBlank(FirstPiece(c + 1))) => PiecesPassedThrough(c)

\* the event cut in two inside its payload, both chunks read
C33_Witness ==
  /\ fnOut.read = 2
  /\ MidLineBoundary(1) /\ ~IsBlank(FirstPiece(2))
  /\ fnIn.chunks[1] \o fnIn.chunks[2] = Event(Fragment(<<[text |-> "Hello wor"]>>))
  /\ Len(fnOut.emitted) = 2

\* C34: every input line that is not blank has exactly one output: a record
\* "data: <JSON>" and a blank line when its payload parses, whatever JSON
\* value it parses to, the line as it is otherwise; so a chunk has as many
\* outputs as it has lines that are not blank.
C34_NoLineDropped ==
  \A c \in ReadChunks :
    /\ \A l \in 1..Len(InputLines(c)) :
         LET line == InputLines(c)[l] IN
         ~IsBlank(line) =>
           /\ Cardinality(OutputsOf(c, l)) = 1
           /\ \A i \in OutputsOf(c, l) :
                IF IsDataLine(line) /\ ~IsBlank(Payload(line)) /\ ~Malformed(line)
                THEN /\ fnOut.emitted[i].value # None
                     /\ fnOut.emitted[i].text
                          = "data: " \o JSONStringify(fnOut.emitted[i].value) \o "\n\n"
                ELSE fnOut.emitted[i].text = line \o "\n"
    /\ Cardinality({i \in 1..Len(fnOut.emitted) : fnOut.emitted[i].chunk = c})
         = Len(InputLines(c)) - BlankLines(InputLines(c))

(***************************************************************************)
(* The body of a streaming response after handleStreamingRequest has       *)
(* returned it.  fetch was given AbortSignal.timeout(requestTimeout): the  *)
(* signal belongs to the whole request, and when it aborts after the       *)
(* response has arrived the runtime errors the response body that is still *)
(* being read.  fnIn holds when the response arrived, fnOut the clock (ms  *)
(* since the fetch was issued), the chunks piped so far and how the body   *)
(* stands.                                                                 *)
(***************************************************************************)
\* DEFAULT_CONFIG.requestTimeout
requestTimeout == 30000

InitStreamBody ==
  /\ HandlerIdle /\ ClientIdle
  /\ fnIn \in {[responseAt |-> t] : t \in {300, 12000}}
  /\ fnOut = [now |-> fnIn.responseAt, piped |-> 0, body |-> "streaming", endedBy |-> "nothing"]

\* time passes while the body is open; the timer of the signal is due at
\* requestTimeout
TimePasses ==
  /\ fnOut.body = "streaming" /\ fnOut.now < requestTimeout
  /\ \E d \in {1000, 8000} : fnOut' = [fnOut EXCEPT !.now = Min(@ + d, requestTimeout)]
  /\ UNCHANGED <<handlerVars, clientVars, fnIn>>

\* the upstream sends a chunk, which is piped through the transformer
ChunkPiped ==
  /\ fnOut.body = "streaming" /\ fnOut.now < requestTimeout
  /\ fnOut.piped < MaxChunks + 2
  /\ fnOut' = [fnOut EXCEPT !.piped = @ + 1]
  /\ UNCHANGED <<handlerVars, clientVars, fnIn>>

\* the upstream ends the body, or the connection to it fails
UpstreamEnds ==
  /\ fnOut.body = "streaming" /\ fnOut.now < requestTimeout
  /\ \E end \in {[body |-> "closed", endedBy |-> "upstream completion"],
                 [body |-> "errored", endedBy |-> "upstream error"]} :
       fnOut' = [fnOut EXCEPT !.body = end.body, !.endedBy = end.endedBy]
  /\ UNCHANGED <<handlerVars, clientVars, fnIn>>

\* the signal given to fetch aborts: the body still open is errored
SignalAborts ==
  /\ fnOut.body = "streaming" /\ fnOut.now = requestTimeout
  /\ fnOut' = [fnOut EXCEPT !.body = "errored", !.endedBy = "request timeout"]
  /\ UNCHANGED <<handlerVars, clientVars, fnIn>>

NextStreamBody ==
  \/ TimePasses
  \/ ChunkPiped
  \/ UpstreamEnds
  \/ SignalAborts

SpecStreamBody == InitStreamBody /\ [][NextStreamBody]_vars

\* C31: once the streaming response has been handed to the caller the
\* gateway never ends the upstream body itself: a body that has ended was
\* ended by the upstream completing or by an upstream error, never by the
\* per-attempt request timeout.
C31_NoGatewayCancellation ==
  fnOut.body # "streaming" => fnOut.endedBy \in {"upstream completion", "upstream error"}

(***************************************************************************)
(* class ResponseCache.  The Map is the sequence of its entries in         *)
(* insertion order, each with its key; a response is the name of its body. *)
(* fnIn holds the constructor's arguments, fnOut the cache, the clock, the *)
(* number of operations so far and the last operation with its result.     *)
(***************************************************************************)
\* Largest maxSize the cache is built with.
MaxCacheSize == 2
\* Largest number of get / set / clear calls in a behaviour.
MaxCacheOps == 3
CacheKeys == {"", "/a", "/b"}

\* position of key in the Map, 0 when it has none
Find(entries, key) ==
  IF \E i \in 1..Len(entries) : entries[i].key = key
  THEN CHOOSE i \in 1..Len(entries) : entries[i].key = key
  ELSE 0

\* Map.delete(key)
Delete(entries, key) == SelectSeq(entries, LAMBDA e : e.key # key)

\* now - entry.timestamp > entry.ttl
Expired(entry, now) == now - entry.timestamp > entry.ttl

\* a get that answers null for an expired entry and leaves it in the Map
get_KeepExpired(cache, key, now) ==
  LET i == Find(cache, key) IN
  IF i = 0 \/ Expired(cache[i], now) THEN [cache |-> cache, returned |-> None]
  ELSE [cache |-> [cache EXCEPT ![i].accessCount = @ + 1, ![i].lastAccess = now],
        returned |-> [response |-> cache[i].response]]

\* ResponseCache.get(key) at Date.now() = now: the Map afterwards and what
\* is returned
get(cache, key, now) ==
  LET i == Find(cache, key) IN
  IF i = 0 THEN [cache |-> cache, returned |-> None]
  ELSE IF Expired(cache[i], now) THEN [cache |-> Delete(cache, key), returned |-> None]
  ELSE [cache |-> [cache EXCEPT ![i].accessCount = @ + 1, ![i].lastAccess = now],
        returned |-> [response |-> cache[i].response]]

\* the loop of evictLRU from entry i on
RECURSIVE OldestFrom(_, _, _, _)
OldestFrom(cache, i, oldestKey, oldestTime) ==
  IF i > Len(cache) THEN oldestKey
  ELSE LET score == cache[i].lastAccess - (cache[i].accessCount * 1000)
       IN IF score < oldestTime THEN OldestFrom(cache, i + 1, cache[i].key, score)
          ELSE OldestFrom(cache, i + 1, oldestKey, oldestTime)

\* ResponseCache.evictLRU() at Date.now() = now
evictLRU(cache, now) ==
  LET oldestKey == OldestFrom(cache, 1, "", now)
  IN IF oldestKey # "" THEN Delete(cache, oldestKey) ELSE cache

\* ResponseCache.set(key, response, ttl) at Date.now() = now; ttl = 0 stands
\* for a call without ttl as well (ttl || this.defaultTTL)
set(cache, config, key, response, ttl, now) ==
  LET entry == [key |-> key, response |-> response, timestamp |-> now,
                ttl |-> IF ttl # 0 THEN ttl ELSE config.defaultTTL,
                accessCount |-> 1, lastAccess |-> now]
      room == IF Len(cache) >= config.maxSize /\ Find(cache, key) = 0
              THEN evictLRU(cache, now) ELSE cache
  IN IF Find(room, key) # 0 THEN [room EXCEPT ![Find(room, key)] = entry]
     ELSE Append(room, entry)

InitResponseCache ==
  /\ HandlerIdle /\ ClientIdle
  /\ fnIn \in {[maxSize |-> n, defaultTTL |-> 300000] : n \in 1..MaxCacheSize}
  /\ fnOut = [cache |-> <<>>, now |-> 0, ticks |-> 0, ops |-> 0, last |-> [op |-> "new"]]

CacheGet ==
  /\ fnOut.ops < MaxCacheOps
  /\ \E key \in CacheKeys :
       LET r == get(fnOut.cache, key, fnOut.now)
       IN fnOut' = [fnOut EXCEPT !.cache = r.cache, !.ops = @ + 1,
                                 !.last = [op |-> "get", key |-> key, returned |-> r.returned,
                                           removed |-> Len(r.cache) < Len(fnOut.cache)]]
  /\ UNCHANGED <<handlerVars, clientVars, fnIn>>

CacheSet ==
  /\ fnOut.ops < MaxCacheOps
  /\ \E key \in CacheKeys, arg \in {[response |-> "r1", ttl |-> 0],
                                     [response |-> "r2", ttl |-> 1000]} :
       fnOut' = [fnOut EXCEPT !.cache = set(@, fnIn, key, arg.response, arg.ttl, fnOut.now),
                              !.ops = @ + 1,
                              !.last = [op |-> "set", key |-> key]]
  /\ UNCHANGED <<handlerVars, clientVars, fnIn>>

CacheClear ==
  /\ fnOut.ops < MaxCacheOps
  /\ fnOut' = [fnOut EXCEPT !.cache = <<>>, !.ops = @ + 1, !.last = [op |-> "clear"]]
  /\ UNCHANGED <<handlerVars, clientVars, fnIn>>

\* the timer of startTTLCleanup fires: cleanupExpired()
CleanupExpired ==
  /\ fnOut' = [fnOut EXCEPT !.cache = SelectSeq(@, LAMBDA e : ~Expired(e, fnOut.now)),
                            !.last = [op |-> "cleanupExpired"]]
  /\ UNCHANGED <<handlerVars, clientVars, fnIn>>

CacheClockAdvances ==
  /\ fnOut.ticks < MaxTicks
  /\ \E d \in {1000, 300000} :
       fnOut' = [fnOut EXCEPT !.now = @ + d, !.ticks = @ + 1, !.last = [op |-> "tick"]]
  /\ UNCHANGED <<handlerVars, clientVars, fnIn>>

NextResponseCache ==
  \/ CacheGet
  \/ CacheSet
  \/ CacheClear
  \/ CleanupExpired
  \/ CacheClockAdvances

SpecResponseCache == InitResponseCache /\ [][NextResponseCache]_vars

\* the keys stored in a Map
KeysOf(cache) == {cache[i].key : i \in 1..Len(cache)}

\* C35: after any sequence of get, set and clear on a cache with
\* maxSize >= 1, for any keys, the empty string included, the cache never
\* holds more than maxSize entries; a set of a new key into a full cache
\* evicts exactly one entry, and a set of a stored key evicts nothing.
C35_CacheCapacity ==
  /\ Len(fnOut.cache) <= fnIn.maxSize
  /\ \A key \in CacheKeys :
       LET after == set(fnOut.cache, fnIn, key, "r1", 0, fnOut.now)
       IN IF key \in KeysOf(fnOut.cache) THEN KeysOf(after) = KeysOf(fnOut.cache)
          ELSE IF Len(fnOut.cache) >= fnIn.maxSize
          THEN Cardinality(KeysOf(fnOut.cache) \ KeysOf(after)) = 1
          ELSE KeysOf(fnOut.cache) \subseteq KeysOf(after)

\* C36: get returns a stored response exactly when the key has an entry no
\* older than its ttl, and then the response last set for the key; it leaves
\* timestamp and ttl as they are, counts the access and notes its time.  For
\* an older entry get returns null and removes the entry.  Nothing but a set
\* of the key brings a key back into the cache.
C36_CacheTtl ==
  [][/\ fnOut'.last.op = "get" =>
          LET key == fnOut'.last.key
              i == Find(fnOut.cache, key)
              j == Find(fnOut'.cache, key)
          IN IF i # 0 /\ fnOut.now - fnOut.cache[i].timestamp <= fnOut.cache[i].ttl
             THEN /\ fnOut'.last.returned = [response |-> fnOut.cache[i].response]
                  /\ j = i
                  /\ fnOut'.cache[j] = [fnOut.cache[i] EXCEPT !.accessCount = @ + 1,
                                                              !.lastAccess = fnOut.now]
                  /\ fnOut'.cache[j].timestamp = fnOut.cache[i].timestamp
                  /\ fnOut'.cache[j].ttl = fnOut.cache[i].ttl
             ELSE fnOut'.last.returned = None /\ j = 0
     /\ \A key \in KeysOf(fnOut'.cache) \ KeysOf(fnOut.cache) :
          fnOut'.last = [op |-> "set", key |-> key]
    ]_vars

\* an entry set with a ttl of 1000 ms was read 2000 ms later: null came
\* back and the entry was removed
C36_Witness ==
  /\ fnOut.last.op = "get" /\ fnOut.last.returned = None /\ fnOut.last.removed
  /\ fnOut.last.key \notin KeysOf(fnOut.cache)
  /\ fnOut.now = 2000

(***************************************************************************)
(* class PathParser.  The Map is the sequence of its entries in insertion  *)
(* order.  fnIn is a workload: the i-th call parses PathOf(i), the first   *)
(* `burst` calls all came within the first millisecond, and `gap` ms pass  *)
(* before each later call.  fnOut holds the cache, the clock, the number   *)
(* of calls and the last call with its result.                             *)
(***************************************************************************)
maxCacheSize == 1000
cacheTTL == 300000
\* Largest number of parse calls after the burst of a workload.
MaxParses == 4
\* Largest number of cleanup() calls.
MaxCleanups == 1

\* pathname.match(/^\/[^\/]+\/([^\/]+)\/(.*)$/) for a pathname of one line:
\* {alias, path}, or null
Match(name) ==
  LET afterRoot == SubSeq(name, 2, Len(name))
      i == IndexOf(afterRoot, "/")
      afterFirst == SubSeq(afterRoot, i + 1, Len(afterRoot))
      j == IndexOf(afterFirst, "/")
  IN IF StartsWith(name, "/") /\ i >= 2 /\ j >= 2
     THEN [alias |-> SubSeq(afterFirst, 1, j - 1),
           path |-> SubSeq(afterFirst, j + 1, Len(afterFirst))]
     ELSE None

\* PathParser.cleanupCache(now)
cleanupCache(cache, now) == SelectSeq(cache, LAMBDA e : ~((now - e.timestamp) >= cacheTTL))

\* PathParser.evictOldest() at Date.now() = now: the first entry of the
\* lowest timestamp below now goes, none when there is no such entry
evictOldest(cache, now) ==
  LET older == {i \in 1..Len(cache) : cache[i].timestamp < now}
  IN IF older = {} THEN cache
     ELSE LET oldest == CHOOSE i \in older : \A k \in older :
                          \/ cache[i].timestamp < cache[k].timestamp
                          \/ cache[i].timestamp = cache[k].timestamp /\ i <= k
          IN IF cache[oldest].key # "" THEN Delete(cache, cache[oldest].key) ELSE cache

\* PathParser.updateCache(pathname, result, timestamp); evictOldest reads
\* the clock itself, at `later`
updateCache(cache, name, result, timestamp, later) ==
  LET cleaned == IF Len(cache) >= maxCacheSize THEN cleanupCache(cache, timestamp) ELSE cache
      room == IF Len(cleaned) >= maxCacheSize THEN evictOldest(cleaned, later) ELSE cleaned
      entry == [key |-> name, alias |-> result.alias, path |-> result.path,
                timestamp |-> timestamp]
  IN IF Find(room, name) # 0 THEN [room EXCEPT ![Find(room, name)] = entry]
     ELSE Append(room, entry)

\* PathParser.parse(pathname): Date.now() gives `now` at line 189 and
\* `later` when evictOldest reads it (line 254).  The Map afterwards, what is
\* returned, whether the cache answered and the last value read off the clock.
parse(cache, name, now, later) ==
  LET i == Find(cache, name) IN
  IF i # 0 /\ (now - cache[i].timestamp) < cacheTTL
  THEN [cache |-> cache, hit |-> TRUE, clock |-> now,
        returned |-> [alias |-> cache[i].alias, path |-> cache[i].path]]
  ELSE IF Match(name) = None
  THEN [cache |-> cache, hit |-> FALSE, clock |-> now, returned |-> None]
  ELSE [cache |-> updateCache(cache, name, Match(name), now, later), hit |-> FALSE,
        clock |-> IF /\ Len(cache) >= maxCacheSize
                     /\ Len(cleanupCache(cache, now)) >= maxCacheSize
                  THEN later ELSE now,
        returned |-> Match(name)]

\* the pathname of the i-th call of a workload over `distinct` pathnames
PathOf(i, distinct) ==
  IF i % distinct = 0 THEN "/health"
  ELSE "/api/svc" \o ToString(i % 2) \o "/v1/models/" \o ToString(i % distinct)

\* The parser after the burst of its workload: `burst` calls within
\* millisecond 1, each of a pathname of its own that has an alias, have each
\* added their entry.
InitPathParser ==
  /\ HandlerIdle /\ ClientIdle
  /\ fnIn \in {[gap |-> g, distinct |-> 3, burst |-> 0] : g \in {0, 1, 150000}}
                \cup {[gap |-> g, distinct |-> 2 * maxCacheSize, burst |-> n] :
                        g \in {0, 1, 150000},
                        n \in {0, maxCacheSize - 1, maxCacheSize}}
  /\ fnOut = [cache |-> [i \in 1..fnIn.burst |->
                           [key |-> PathOf(i, fnIn.distinct),
                            alias |-> Match(PathOf(i, fnIn.distinct)).alias,
                            path |-> Match(PathOf(i, fnIn.distinct)).path,
                            timestamp |-> 1]],
              now |-> 1, clock |-> 1, calls |-> fnIn.burst, cleanups |-> 0,
              last |-> [hit |-> FALSE]]

\* parse(pathname), `gap` ms after the clock was last read; the clock may
\* tick inside the call.  fnOut.now is the time the call read first.
Parse ==
  /\ fnOut.calls < fnIn.burst + MaxParses
  /\ \E tick \in {0, 1} :
       LET now == fnOut.clock + fnIn.gap
           name == PathOf(fnOut.calls + 1, fnIn.distinct)
           r == parse(fnOut.cache, name, now, now + tick)
       IN fnOut' = [fnOut EXCEPT
                      !.cache = r.cache, !.now = now, !.clock = r.clock,
                      !.calls = @ + 1,
                      !.last = [hit |-> r.hit, pathname |-> name, returned |-> r.returned,
                                cached |-> IF r.hit
                                           THEN fnOut.cache[Find(fnOut.cache, name)]
                                           ELSE None]]
  /\ UNCHANGED <<handlerVars, clientVars, fnIn>>

\* cleanup(): cleanupCache(Date.now()), at once or `gap` ms after the clock
\* was last read
ParserCleanup ==
  /\ fnOut.cleanups < MaxCleanups
  /\ \E step \in {0, fnIn.gap} :
       fnOut' = [fnOut EXCEPT !.cache = cleanupCache(@, fnOut.clock + step),
                              !.clock = @ + step,
                              !.cleanups = @ + 1]
  /\ UNCHANGED <<handlerVars, clientVars, fnIn>>

NextPathParser ==
  \/ Parse
  \/ ParserCleanup

SpecPathParser == InitPathParser /\ [][NextPathParser]_vars

\* C37: after any sequence of parse calls at non-decreasing times, many of
\* them within one millisecond included, the cache holds at most
\* maxCacheSize entries, and parse returns what the regular expression
\* gives for the pathname, whether the cache answered or not; the cache
\* answers only from the entry of that pathname, younger than cacheTTL.
C37_PathParserCache ==
  /\ Len(fnOut.cache) <= maxCacheSize
  /\ fnOut.calls > fnIn.burst =>
       /\ fnOut.last.returned = Match(fnOut.last.pathname)
       /\ fnOut.last.hit =>
            /\ fnOut.last.cached.key = fnOut.last.pathname
            /\ fnOut.now - fnOut.last.cached.timestamp < cacheTTL

(***************************************************************************)
(* class CircularBuffer.  fnIn holds the constructor's argument; fnOut the *)
(* fields of the buffer (index counts from 0 as in the code, the array is  *)
(* a sequence whose slot k + 1 is buffer[k], -1 in a slot never written)   *)
(* and, for the claims, the values added since the last clear.             *)
(***************************************************************************)
\* Largest capacity a buffer is built with.
MaxBufferSize == 3
\* Largest number of add calls in a behaviour.
MaxAdds == 5

\* a getValues that returns the array as it lies once the buffer is full
getValues_Unrotated(this) ==
  IF this.count = 0 THEN <<>>
  ELSE IF this.count < this.size THEN SubSeq(this.buffer, 1, this.count)
  ELSE this.buffer

\* CircularBuffer.getValues()
getValues(this) ==
  IF this.count = 0 THEN <<>>
  ELSE IF this.count < this.size THEN SubSeq(this.buffer, 1, this.count)
  ELSE SubSeq(this.buffer, this.index + 1, this.size) \o SubSeq(this.buffer, 1, this.index)

\* CircularBuffer.add(value)
add(this, value) ==
  [this EXCEPT !.buffer[this.index + 1] = value,
               !.index = (this.index + 1) % this.size,
               !.count = IF this.count < this.size THEN this.count + 1 ELSE this.count]

InitCircularBuffer ==
  /\ HandlerIdle /\ ClientIdle
  /\ fnIn \in {[size |-> n] : n \in 1..MaxBufferSize}
  /\ fnOut = [this |-> [size |-> fnIn.size, buffer |-> [k \in 1..fnIn.size |-> -1],
                        index |-> 0, count |-> 0],
              added |-> <<>>, adds |-> 0]

\* recordRequest adds a response time
BufferAdd ==
  /\ fnOut.adds < MaxAdds
  /\ \E value \in {12, 250} :
       fnOut' = [this |-> add(fnOut.this, value), added |-> Append(fnOut.added, value),
                 adds |-> fnOut.adds + 1]
  /\ UNCHANGED <<handlerVars, clientVars, fnIn>>

\* CircularBuffer.clear()
BufferClear ==
  /\ fnOut' = [fnOut EXCEPT !.this.index = 0, !.this.count = 0, !.added = <<>>]
  /\ UNCHANGED <<handlerVars, clientVars, fnIn>>

NextCircularBuffer ==
  \/ BufferAdd
  \/ BufferClear

SpecCircularBuffer == InitCircularBuffer /\ [][NextCircularBuffer]_vars

\* C38: after any adds and clears getCount() is at most the capacity and
\* getValues() is the last min(n, size) values added since the last clear,
\* oldest first, n being the number of adds since then; right after a clear
\* it is the empty sequence.
C38_BufferWindow ==
  LET n == Len(fnOut.added)
      kept == IF n < fnIn.size THEN n ELSE fnIn.size
  IN /\ fnOut.this.count <= fnIn.size
     /\ fnOut.this.count = kept
     /\ getValues(fnOut.this) = SubSeq(fnOut.added, n - kept + 1, n)

\* a buffer of capacity 2 that was filled, cleared, and has since wrapped
\* around once more
C38_Witness ==
  /\ fnIn.size = 2 /\ fnOut.adds = 5
  /\ fnOut.added = <<250, 12, 250>>
  /\ fnOut.this.index = 1
  /\ getValues(fnOut.this) = <<12, 250>>

(***************************************************************************)
(* class MonitoringService as mainHandler uses it.  fnOut.monitor holds    *)
(* requestMetrics and serviceHealth (lastCheck and startTime, which only   *)
(* carry times, are left out; error = "" stands for no error field);       *)
(* responseTimes is a CircularBuffer, or the plain array that resetMetrics *)
(* puts in its place.  fnOut.last is the last operation and whether it     *)
(* raised an error.                                                        *)
(***************************************************************************)
\* Largest number of requests recorded in a behaviour.
MaxRecorded == 3
\* the aliases of GENERIC_SERVICES and SPECIAL_SERVICES
GENERIC_SERVICES ==
  {"discord", "telegram", "httpbin", "openai", "claude", "gemini", "gemininothink",
   "meta", "groq", "xai", "cohere", "huggingface", "together", "novita", "portkey",
   "fireworks", "targon", "openrouter", "siliconflow", "modelscope", "gmi",
   "azureinference", "githubai", "dmxcom", "dmxcn"}
SPECIAL_SERVICES == {"gemini-anti"}

\* initializeServiceHealth()
initializeServiceHealth ==
  [alias \in GENERIC_SERVICES \cup SPECIAL_SERVICES |-> [status |-> "healthy", error |-> ""]]

\* updateServiceHealth(service, status, error)
updateServiceHealth(monitor, service, status, error) ==
  IF service \in DOMAIN monitor.serviceHealth
  THEN [monitor EXCEPT !.serviceHealth[service].status = status,
                       !.serviceHealth[service].error = IF error # "" THEN error ELSE @]
  ELSE monitor

\* a recordRequest that takes a success as a sign of recovery
recordRequest_Recover(monitor, success, responseTime, service) ==
  LET counted == [monitor EXCEPT !.total = @ + 1] IN
  IF counted.responseTimes.class # "CircularBuffer"
  THEN [monitor |-> counted, threw |-> TRUE]
  ELSE LET added == [counted EXCEPT !.responseTimes.this = add(@, responseTime)]
       IN [monitor |-> [added EXCEPT !.successful = IF success THEN @ + 1 ELSE @,
                                     !.failed = IF success THEN @ ELSE @ + 1,
                                     !.serviceHealth =
                                        IF service \in DOMAIN @
                                        THEN [@ EXCEPT ![service].status =
                                                IF success THEN "healthy" ELSE "degraded"]
                                        ELSE @],
               threw |-> FALSE]

\* recordRequest(success, responseTime, service), service = "" when it is
\* not given: the service afterwards and whether the call raised an error
\* (responseTimes.add is not a function when responseTimes is an array)
recordRequest(monitor, success, responseTime, service) ==
  LET counted == [monitor EXCEPT !.total = @ + 1] IN
  IF counted.responseTimes.class # "CircularBuffer"
  THEN [monitor |-> counted, threw |-> TRUE]
  ELSE LET added == [counted EXCEPT !.responseTimes.this = add(@, responseTime)]
       IN [monitor |-> IF success THEN [added EXCEPT !.successful = @ + 1]
                       ELSE [added EXCEPT !.failed = @ + 1,
                                          !.serviceHealth =
                                             IF service # "" /\ service \in DOMAIN @
                                             THEN [@ EXCEPT ![service].status = "degraded"]
                                             ELSE @],
               threw |-> FALSE]

\* getSystemMetrics(), which getHealthCheck and getDetailedMetrics call
\* first: what it returns of the request metrics, or the error raised
\* (responseTimes.getValues is not a function when responseTimes is an array)
getSystemMetrics(monitor) ==
  IF monitor.responseTimes.class # "CircularBuffer" THEN Throw("TypeError")
  ELSE Return([totalRequests |-> monitor.total,
               successfulRequests |-> monitor.successful,
               failedRequests |-> monitor.failed,
               responseTimes |-> getValues(monitor.responseTimes.this),
               services |-> monitor.serviceHealth])

InitMonitoring ==
  /\ HandlerIdle /\ ClientIdle
  /\ fnIn = [responseTimes |-> 1000]
  /\ fnOut = [monitor |-> [total |-> 0, successful |-> 0, failed |-> 0,
                           responseTimes |->
                             [class |-> "CircularBuffer",
                              this |-> [size |-> fnIn.responseTimes,
                                        buffer |-> [k \in 1..fnIn.responseTimes |-> -1],
                                        index |-> 0, count |-> 0]],
                           serviceHealth |-> initializeServiceHealth],
              requests |-> 0, resets |-> 0, last |-> [op |-> "new", threw |-> FALSE]]

\* mainHandler hands a request to a service handler (service = "" for a
\* path without alias and for an unknown path).  Either the handler answers
\* with `status`: the request is recorded and the service marked after a
\* failure; or the awaited handler rejects and nothing was recorded.  An error
\* raised inside the try, by the handler or by recordRequest, goes to the
\* catch block, which records one failed request without a service; when
\* that call raises too, mainHandler rejects.
ServiceRequest ==
  /\ fnOut.requests < MaxRecorded
  /\ \E service \in {"gemini-anti", "gemini", "nosuch", ""},
        answer \in {[kind |-> "response", status |-> 200],
                    [kind |-> "response", status |-> 500],
                    [kind |-> "rejected"]} :
       LET answered == answer.kind = "response"
           success == answered /\ answer.status < 400
           tried == IF answered THEN recordRequest(fnOut.monitor, success, 40, service)
                    ELSE [monitor |-> fnOut.monitor, threw |-> TRUE]
           marked == IF service # "" /\ ~success
                     THEN updateServiceHealth(tried.monitor, service, "degraded",
                                              "HTTP " \o ToString(answer.status))
                     ELSE tried.monitor
           caught == recordRequest(tried.monitor, FALSE, 40, "")
       IN fnOut' = [fnOut EXCEPT
                      !.monitor = IF tried.threw THEN caught.monitor ELSE marked,
                      !.requests = @ + 1,
                      !.last = [op |-> "recordRequest",
                                threw |-> IF answered THEN tried.threw ELSE caught.threw,
                                service |-> service, success |-> success]]
  /\ UNCHANGED <<handlerVars, clientVars, fnIn>>

\* The requests mainHandler answers itself: OPTIONS, GET /health
\* (getHealthCheck), /metrics (getDetailedMetrics), /services
\* (getServiceStatus) and a request over the rate limit.  None of them is
\* recorded, unless getSystemMetrics raises: the catch block then records one
\* failed request.
MetricsRequest ==
  /\ fnOut.requests < MaxRecorded
  /\ \E op \in {"OPTIONS", "getHealthCheck", "getDetailedMetrics", "getServiceStatus",
                "rateLimited"} :
       LET threw == /\ op \in {"getHealthCheck", "getDetailedMetrics"}
                    /\ getSystemMetrics(fnOut.monitor).threw
           caught == recordRequest(fnOut.monitor, FALSE, 40, "")
       IN fnOut' = [fnOut EXCEPT
                      !.monitor = IF threw THEN caught.monitor ELSE @,
                      !.requests = IF threw THEN @ + 1 ELSE @,
                      !.last = [op |-> op, threw |-> threw,
                                service |-> "", success |-> TRUE]]
  /\ UNCHANGED <<handlerVars, clientVars, fnIn>>

\* getSystemMetrics() called on the service itself
GetSystemMetrics ==
  /\ fnOut' = [fnOut EXCEPT !.last = [op |-> "getSystemMetrics",
                                       threw |-> getSystemMetrics(fnOut.monitor).threw,
                                       service |-> "", success |-> TRUE]]
  /\ UNCHANGED <<handlerVars, clientVars, fnIn>>

\* resetMetrics()
ResetMetrics ==
  /\ fnOut.resets < 1
  /\ fnOut' = [fnOut EXCEPT
                 !.monitor = [total |-> 0, successful |-> 0, failed |-> 0,
                              responseTimes |-> [class |-> "Array", this |-> <<>>],
                              serviceHealth |-> initializeServiceHealth],
                 !.resets = @ + 1,
                 !.last = [op |-> "resetMetrics", threw |-> FALSE]]
  /\ UNCHANGED <<handlerVars, clientVars, fnIn>>

NextMonitoring ==
  \/ ServiceRequest
  \/ MetricsRequest
  \/ GetSystemMetrics
  \/ ResetMetrics

SpecMonitoring == InitMonitoring /\ [][NextMonitoring]_vars

\* C39: after resetMetrics total, successful and failed are 0 and every
\* service is healthy, and the service goes on as a new one does: no later
\* recordRequest, getSystemMetrics, getHealthCheck or getDetailedMetrics
\* raises an error, and total = successful + failed keeps holding.
C39_ResetRestoresInitialState ==
  /\ fnOut.last.op = "resetMetrics" =>
       /\ fnOut.monitor.total = 0 /\ fnOut.monitor.successful = 0
       /\ fnOut.monitor.failed = 0
       /\ \A alias \in DOMAIN fnOut.monitor.serviceHealth :
            fnOut.monitor.serviceHealth[alias].status = "healthy"
  /\ ~fnOut.last.threw
  /\ fnOut.monitor.total = fnOut.monitor.successful + fnOut.monitor.failed

\* C40: a known service that is degraded stays degraded whatever requests
\* follow, successful ones included; only resetMetrics makes it healthy
\* again, and it makes every service healthy.
C40_HealthMonotone ==
  [][/\ \A alias \in DOMAIN fnOut.monitor.serviceHealth :
          (/\ fnOut.monitor.serviceHealth[alias].status = "degraded"
           /\ fnOut'.monitor.serviceHealth[alias].status # "degraded")
            => fnOut'.last.op = "resetMetrics"
     /\ fnOut'.last.op = "resetMetrics" =>
          \A alias \in DOMAIN fnOut'.monitor.serviceHealth :
            fnOut'.monitor.serviceHealth[alias].status = "healthy"
    ]_vars

\* a failed request degraded gemini-anti, and a successful request for it
\* was recorded afterwards
C40_Witness ==
  /\ fnOut.last.op = "recordRequest" /\ ~fnOut.last.threw
  /\ fnOut.last.service = "gemini-anti" /\ fnOut.last.success
  /\ fnOut.monitor.serviceHealth["gemini-anti"] = [status |-> "degraded", error |-> "HTTP 500"]
  /\ fnOut.monitor.successful >= 1 /\ fnOut.monitor.failed >= 1
====
